---- MODULE Spec2Model ----
(***************************************************************************)
(* Aqueduct transport: the fan-out distributor (Sender, run_accept_loop,   *)
(* handle_receiver over a tokio broadcast channel), the send-side          *)
(* compression path, and the stream reader (Receiver::receive).            *)
(*                                                                         *)
(* Spec      the fan-out: one application, the accept loop, the writer     *)
(*           tasks and the broadcast channel of capacity 16.               *)
(* SpecSend  Sender::send on its own: packet kinds and payloads vary, the  *)
(*           compression-buffer lock may be poisoned.                      *)
(* SpecRecv  Receiver::receive against a byte stream delivered in chunks.  *)
(***************************************************************************)
EXTENDS Integers, Sequences, FiniteSets, TLC

(***************************************************************************)
(* Program constants.                                                      *)
(***************************************************************************)
\* broadcast::channel(16)
Capacity == 16
\* Type + Length = 1 + 4 bytes
HeaderLen == 5
\* the safety ceiling on the declared payload length
MaxPayload == 100000000
TYPE_VIDEO == 1
TYPE_AUDIO == 2
TYPE_METADATA == 3

(***************************************************************************)
(* Bounds of the model.                                                    *)
(***************************************************************************)
\* packets the channel stores (channel positions)
MaxPub == 18
\* send calls made while nobody is subscribed
MaxLost == 1
\* latest channel position at which a connection is still accepted
MaxSubAt == 1
\* Sender handles (clones) the application holds at once
MaxSenders == 2
\* packets the channel stores in SpecLife
MaxPubLife == 3
\* send calls in SpecSend
MaxSendCalls == 2
\* bytes of frame data in SpecSend
MaxData == 2
\* receive calls in SpecRecv
MaxCalls == 2
\* bytes one read returns at most
MaxChunk == 3
\* packets sent over the connection in SpecTrip
MaxTrip == 1
\* largest size field given to the decoder in SpecCodec
MaxDeclared == 3
\* send calls begun in SpecConc
MaxConcSends == 3
\* receive calls abandoned in SpecAgain
MaxAbandon == 2
\* packets sent in SpecWrite
MaxWriteSends == 2

VARIABLES
    \* ---- the application and the Sender handles
    appSenders,   \* Sender values the application holds (Sender is Clone)
    sendCount,    \* completed send calls; the next packet's publish index
    sendResult,   \* how the last send call ended: "none", "Ok", "Err", "panic"
    sent,         \* the packet the last send call was given (history)
    fallback,     \* the last send call took the allocating encode (history)
    handed,       \* the packets the last send call gave to tx.send (history)
    compression_buffer, \* the shared BytesMut behind the mutex
    poisoned,     \* the mutex is poisoned (a holder panicked)
    \* ---- the broadcast channel (tokio::sync::broadcast, capacity 16)
    numTx,        \* live broadcast::Sender handles
    rxCnt,        \* live broadcast::Receiver handles (tail.rx_cnt)
    tail,         \* tail.pos: the position the next stored value gets
    closed,       \* tail.closed
    buffer,       \* the ring: slot index -> [pos, val]
    chanLog,      \* packets the channel stored, in position order (history)
    lost,         \* packets tx.send was given and did not store (history)
    \* ---- the accept loop and the writer tasks
    acceptLoop,   \* "running" or "ended"
    nConn,        \* connections accepted so far; writer ids are 1..nConn
    pc,           \* writer -> "idle", "recv", "write", "closed", "failed"
    next,         \* writer -> rx.next, the position it reads next
    cur,          \* writer -> the packet being written by write_packet
    taken,        \* writer -> publish indices taken from the channel
    sock,         \* writer -> publish indices whose record is fully written
    subPos,       \* writer -> channel position at subscription (history)
    subSent,      \* writer -> sendCount at subscription (history)
    skipped,      \* writer -> sum of the lag counts it was told (history)
    lastRecv,     \* writer -> outcome of its last rx.recv() (history)
    prevRecv,     \* writer -> the rx.recv() before that, if it was a lag (history)
    \* ---- one Receiver and the byte stream it reads
    wire,         \* bytes the peer has sent that no read has returned yet
    fin,          \* the peer closes the connection after those bytes
    rbuf,         \* Receiver::buffer
    dbuf,         \* Receiver::decompress_buffer
    rpc,          \* receive's position: "idle", "hdr" (first loop), "body"
    rtype,        \* receive's local type_id
    rlen,         \* receive's local len
    result,       \* what the last receive call returned
    calls,        \* receive calls made so far
    \* ---- the codec, PixelFormat and write_packet's header on their own
    codecCall,    \* the last call: operation, input, destination before and after
    \* ---- send calls running on several threads, and the memory of the buffer
    arena,        \* the storage behind compression_buffer and the Bytes split from it
    cbuf,         \* the BytesMut: where it starts in the storage, and its length
    holder,       \* the thread holding the mutex's guard, 0 when it is free
    thr,          \* thread -> its send call: position, packet, start_len, result
    published,    \* the packets given to tx.send, with their frame's data (history)
    \* ---- what receive has done with the stream
    consumed,     \* the bytes receive has taken out of its buffer (history)
    delivered,    \* what receive returned for each record it took (history)
    abandons,     \* receive calls dropped while they waited for a read
    \* ---- the writer tasks' sockets, byte by byte
    sockBytes,    \* writer -> the bytes written to its socket so far
    wfield        \* writer -> which of write_packet's writes comes next

appVars  == <<appSenders, sendCount, sendResult, sent, fallback, handed,
              compression_buffer, poisoned>>
chanVars == <<numTx, rxCnt, tail, closed, buffer, chanLog, lost>>
taskVars == <<acceptLoop, nConn, pc, next, cur, taken, sock, subPos, subSent, skipped, lastRecv, prevRecv>>
recvVars == <<wire, fin, rbuf, dbuf, rpc, rtype, rlen, result, calls>>
codecVars == <<codecCall>>
lockVars == <<arena, cbuf, holder, thr, published>>
histVars == <<consumed, delivered, abandons>>
sockVars == <<sockBytes, wfield>>
vars == <<appVars, chanVars, taskVars, recvVars, codecVars, lockVars, histVars, sockVars>>

\* the connections the accept loop takes, in the order it takes them
Writers == {1, 2}
Slots == 0..(Capacity - 1)

(***************************************************************************)
(* Bytes and the codec.                                                    *)
(***************************************************************************)
\* put_u32_le(n as u32): the four bytes of n, least significant first (the
\* lengths of the model stay below 2^31, so the cast changes nothing)
LE32(n) ==
    <<n % 256, (n \div 256) % 256, (n \div 65536) % 256, (n \div 16777216) % 256>>

\* lz4_flex::block::get_maximum_output_size
GetMaximumOutputSize(n) == 16 + 4 + ((n * 11) \div 10)

\* length of the run of equal bytes at the head of x
RECURSIVE RunLen(_)
RunLen(x) ==
    IF Len(x) <= 1 THEN Len(x)
    ELSE IF x[1] = x[2] THEN 1 + RunLen(Tail(x)) ELSE 1

\* the compressed block: the library's block format is stood for by a
\* run-length code, <<count, byte>> per run and a closing 0 (as the block
\* of the library is never empty: it ends with a token); it is lossless and
\* not the identity
RECURSIVE CompressBlock(_)
CompressBlock(x) ==
    IF x = <<>> THEN <<0>>
    ELSE LET r == RunLen(x)
         IN  <<r, x[1]>> \o CompressBlock(SubSeq(x, r + 1, Len(x)))

\* lz4_flex::compress_into(input, output): OutputTooSmall unless the output
\* slice holds the maximum output size
CompressInto(input, outLen) ==
    IF outLen < GetMaximumOutputSize(Len(input))
    THEN [ok |-> FALSE, out |-> <<>>]
    ELSE [ok |-> TRUE, out |-> CompressBlock(input)]

\* Lz4Codec::encode_into(frame, dst): the result and dst afterwards
EncodeInto(data, dst) ==
    LET max_len   == GetMaximumOutputSize(Len(data))
        withSize  == dst \o LE32(Len(data))
        c         == CompressInto(data, max_len)
    IN  IF c.ok
        THEN [ok |-> TRUE, dst |-> withSize \o c.out]
        ELSE [ok |-> FALSE, dst |-> withSize \o [i \in 1..max_len |-> 0]]

\* Lz4Codec::encode(frame): encode_into on a fresh buffer, then freeze
Encode(data) ==
    LET r == EncodeInto(data, <<>>)
    IN  [ok |-> r.ok, bytes |-> r.dst]

(***************************************************************************)
(* Packets.                                                                *)
(***************************************************************************)
Kinds == {"Video", "Audio", "Metadata"}

Packet(id, kind, data) == [id |-> id, kind |-> kind, data |-> data]

NoPacket == Packet(-1, "none", <<>>)

\* the packet the application passes to its i-th send call in Spec
PacketOf(i) ==
    Packet(i, CASE i % 3 = 0 -> "Video" [] i % 3 = 1 -> "Audio" [] OTHER -> "Metadata",
           <<i % 2, i % 2>>)

(***************************************************************************)
(* The broadcast channel.                                                  *)
(***************************************************************************)
\* broadcast::channel(16): slot i starts at position i - capacity, so that a
\* receiver at position i finds the channel empty
InitBuffer == [i \in Slots |-> [pos |-> i - Capacity, val |-> NoPacket]]

\* broadcast::Sender::send: Err and nothing stored when no receiver is
\* subscribed, else the value goes into slot tail mod capacity
TxSendStores == rxCnt > 0

TxSend(p) ==
    IF TxSendStores
    THEN /\ buffer' = [buffer EXCEPT ![tail % Capacity] = [pos |-> tail, val |-> p]]
         /\ tail' = tail + 1
         /\ chanLog' = Append(chanLog, p.id)
         /\ lost' = lost
    ELSE /\ lost' = lost \cup {p.id}
         /\ UNCHANGED <<buffer, tail, chanLog>>

\* Drop for broadcast::Sender: the last handle closes the channel
TxDrop ==
    /\ numTx' = numTx - 1
    /\ closed' = (closed \/ numTx = 1)

\* the oldest position the ring still holds once it has wrapped
OldestPos == tail - Capacity

\* (faulty variant) the lag count one too large
MissedOffByOne(n) == OldestPos - n + 1

\* the lag count handed to a receiver at position n that has been overrun
Missed(n) == OldestPos - n

\* (faulty variant) an overrun slot passes for the receiver's own
SlotMovedOnlyIfOlder(n) == buffer[n % Capacity].pos < n

\* the slot of position n holds another position: a receiver there does not
\* find its value
SlotMoved(n) == buffer[n % Capacity].pos # n

\* the slot of position n still holds the position one lap back: nothing
\* has been stored at n yet
SlotEmpty(n) == buffer[n % Capacity].pos + Capacity = n

\* (faulty variant) a received value does not advance the receiver
RecvOutcomeRepeats(n) ==
    LET slot == buffer[n % Capacity]
        out(k, m, nx, v) == [kind |-> k, n |-> m, next |-> nx, val |-> v]
    IN  IF SlotMoved(n)
        THEN IF SlotEmpty(n)
             THEN IF closed THEN out("closed", 0, n, NoPacket)
                  ELSE out("pending", 0, n, NoPacket)
             ELSE IF Missed(n) = 0
                  THEN out("ok", 0, n, slot.val)
                  ELSE out("lag", Missed(n), OldestPos, NoPacket)
        ELSE out("ok", 0, n, slot.val)

\* the outcome of rx.recv() for a receiver at position n; "pending" is the
\* await that does not complete
RecvOutcome(n) ==
    LET slot == buffer[n % Capacity]
        out(k, m, nx, v) == [kind |-> k, n |-> m, next |-> nx, val |-> v]
    IN  IF SlotMoved(n)
        THEN IF SlotEmpty(n)
             THEN IF closed THEN out("closed", 0, n, NoPacket)
                  ELSE out("pending", 0, n, NoPacket)
             ELSE IF Missed(n) = 0
                  THEN out("ok", 0, n + 1, slot.val)
                  ELSE out("lag", Missed(n), OldestPos, NoPacket)
        ELSE out("ok", 0, n + 1, slot.val)

NoRecv ==
    [kind |-> "none", n |-> 0, next |-> 0, id |-> -1, from |-> 0, tailAt |-> 0,
     behind |-> FALSE, oldest |-> FALSE]

\* what is remembered of an outcome for a receiver that was at position n:
\* whether it was more than the capacity behind, whether its position was
\* the oldest one held and, of a lag notification, the count, the position
\* before and after, and the channel's tail
Note(o, n) ==
    [kind |-> o.kind, id |-> o.val.id,
     behind |-> tail - n > Capacity, oldest |-> n = tail - Capacity,
     n |-> o.n,
     next |-> IF o.kind = "lag" THEN o.next ELSE 0,
     from |-> IF o.kind = "lag" THEN n ELSE 0,
     tailAt |-> IF o.kind = "lag" THEN tail ELSE 0]

(***************************************************************************)
(* Sender::send.                                                           *)
(***************************************************************************)
\* the lock()'s result: Err only when the mutex is poisoned
LockOk == ~poisoned

\* (faulty variant) a lock that cannot be taken ends the send with an error
SendCompressNoFallback(data) ==
    IF LockOk
    THEN LET r == EncodeInto(data, <<>>)
         IN  [ok |-> r.ok, bytes |-> r.dst, buf |-> <<>>, fallback |-> FALSE]
    ELSE [ok |-> FALSE, bytes |-> <<>>, buf |-> compression_buffer, fallback |-> FALSE]

\* what send does to a Video frame's data: the bytes it puts in frame.data,
\* whether send goes on (the ? on the fallback), the buffer afterwards
SendCompress(data) ==
    IF LockOk
    THEN LET r == EncodeInto(data, <<>>)      \* buffer.clear(); encode_into
         IN  IF r.ok
             THEN [ok |-> TRUE, bytes |-> r.dst, buf |-> <<>>, fallback |-> FALSE]
             ELSE LET e == Encode(data)
                  IN  [ok |-> e.ok, bytes |-> e.bytes, buf |-> r.dst, fallback |-> TRUE]
    ELSE LET e == Encode(data)
         IN  [ok |-> e.ok, bytes |-> e.bytes, buf |-> compression_buffer, fallback |-> TRUE]

\* (faulty variant) send waits until every subscriber has room, as a bounded queue
\* would
TxSendWaitsForRoom ==
    \A w \in Writers : pc[w] \in {"recv", "write"} => tail - next[w] < Capacity

\* tx.send is not async: with the ring full it overwrites the oldest slot,
\* it never waits for a receiver
TxSendReady == TRUE

Send(p) ==
    /\ appSenders > 0
    /\ TxSendReady
    /\ LET c == IF p.kind = "Video" THEN SendCompress(p.data)
                ELSE [ok |-> TRUE, bytes |-> p.data, buf |-> compression_buffer,
                      fallback |-> FALSE]
           q == [p EXCEPT !.data = c.bytes]
       IN  /\ compression_buffer' = c.buf
           /\ sent' = p
           /\ fallback' = c.fallback
           /\ IF c.ok
              THEN /\ TxSend(q)
                   /\ handed' = <<q>>
                   /\ sendResult' = "Ok"
              ELSE /\ UNCHANGED <<buffer, tail, chanLog, lost>>
                   /\ handed' = <<>>
                   /\ sendResult' = "Err"
    /\ sendCount' = sendCount + 1
    /\ UNCHANGED <<appSenders, poisoned, numTx, rxCnt, closed, taskVars, recvVars, codecVars, sockVars, histVars, lockVars>>

\* a send call panics between lock() and the end of the if-let (a reserve or
\* resize of the buffer that overflows): the guard is dropped while
\* unwinding and the mutex is poisoned; the call returns nothing
SendPanics ==
    /\ appSenders > 0
    /\ ~poisoned
    /\ poisoned' = TRUE
    /\ compression_buffer' = <<>>
    /\ sendCount' = sendCount + 1
    /\ sendResult' = "panic"
    /\ handed' = <<>>
    /\ UNCHANGED <<appSenders, sent, fallback, chanVars, taskVars, recvVars, codecVars, sockVars, histVars, lockVars>>

\* Sender::clone
CloneSender ==
    /\ appSenders > 0
    /\ appSenders < MaxSenders
    /\ appSenders' = appSenders + 1
    /\ numTx' = numTx + 1
    /\ UNCHANGED <<sendCount, sendResult, sent, fallback, handed, compression_buffer,
                   poisoned, recvVars, codecVars, sockVars, histVars, lockVars,
                   rxCnt, tail, closed, buffer, chanLog, lost, taskVars>>

\* a Sender value is dropped
DropSender ==
    /\ appSenders > 0
    /\ appSenders' = appSenders - 1
    /\ TxDrop
    /\ UNCHANGED <<sendCount, sendResult, sent, fallback, handed, compression_buffer,
                   poisoned, recvVars, codecVars, sockVars, histVars, lockVars,
                   rxCnt, tail, buffer, chanLog, lost, taskVars>>

(***************************************************************************)
(* run_accept_loop.                                                        *)
(***************************************************************************)
\* (faulty variant) a new receiver starts at the oldest value the ring holds
SubscribeAtOldest == IF tail > Capacity THEN tail - Capacity ELSE 0

\* tx.subscribe(): the new receiver starts at the tail
SubscribePos == tail

\* listener.accept() returns a connection: subscribe, spawn handle_receiver
Accept ==
    /\ acceptLoop = "running"
    /\ nConn < Cardinality(Writers)
    /\ tail <= MaxSubAt
    /\ LET w == nConn + 1
       IN  /\ nConn' = w
           /\ rxCnt' = rxCnt + 1
           /\ pc' = [pc EXCEPT ![w] = "recv"]
           /\ next' = [next EXCEPT ![w] = SubscribePos]
           /\ subPos' = [subPos EXCEPT ![w] = SubscribePos]
           /\ subSent' = [subSent EXCEPT ![w] = sendCount]
    /\ UNCHANGED <<appVars, recvVars, codecVars, sockVars, histVars, lockVars, numTx, tail, closed, buffer, chanLog, lost, acceptLoop,
                   cur, taken, sock, skipped, lastRecv, prevRecv>>

\* what leaving run_accept_loop does to the loop's broadcast::Sender clone
AcceptLoopExit == TxDrop

\* listener.accept() returns an error: the ? leaves the loop
AcceptFail ==
    /\ acceptLoop = "running"
    /\ acceptLoop' = "ended"
    /\ AcceptLoopExit
    /\ UNCHANGED <<appVars, recvVars, codecVars, sockVars, histVars, lockVars, rxCnt, tail, buffer, chanLog, lost, nConn, pc, next, cur,
                   taken, sock, subPos, subSent, skipped, lastRecv, prevRecv>>

(***************************************************************************)
(* handle_receiver.                                                        *)
(***************************************************************************)
\* rx.recv().await completes
Recv(w) ==
    /\ pc[w] = "recv"
    /\ LET o == RecvOutcome(next[w])
       IN  /\ o.kind # "pending"
           /\ next' = [next EXCEPT ![w] = o.next]
           /\ prevRecv' = [prevRecv EXCEPT ![w] = IF lastRecv[w].kind = "lag" THEN lastRecv[w] ELSE NoRecv]
           /\ lastRecv' = [lastRecv EXCEPT ![w] = Note(o, next[w])]
           /\ CASE o.kind = "ok" ->
                     /\ pc' = [pc EXCEPT ![w] = "write"]
                     /\ cur' = [cur EXCEPT ![w] = o.val]
                     /\ taken' = [taken EXCEPT ![w] = Append(@, o.val.id)]
                     /\ UNCHANGED <<skipped, rxCnt>>
                [] o.kind = "lag" ->
                     /\ skipped' = [skipped EXCEPT ![w] = @ + o.n]
                     /\ UNCHANGED <<pc, cur, taken, rxCnt>>
                [] OTHER ->
                     /\ pc' = [pc EXCEPT ![w] = "closed"]
                     /\ rxCnt' = rxCnt - 1
                     /\ UNCHANGED <<cur, taken, skipped>>
    /\ UNCHANGED <<appVars, recvVars, codecVars, sockVars, histVars, lockVars, numTx, tail, closed, buffer, chanLog, lost, acceptLoop,
                   nConn, sock, subPos, subSent>>

\* write_packet returns Ok: the whole record is on the socket
WriteOk(w) ==
    /\ pc[w] = "write"
    /\ pc' = [pc EXCEPT ![w] = "recv"]
    /\ sock' = [sock EXCEPT ![w] = Append(@, cur[w].id)]
    /\ cur' = [cur EXCEPT ![w] = NoPacket]
    /\ UNCHANGED <<appVars, recvVars, codecVars, sockVars, histVars, lockVars, chanVars, acceptLoop, nConn, next, taken, subPos, subSent, skipped, lastRecv, prevRecv>>

\* (faulty variant) a failed write tears the channel down for everyone
WriteFailClosesChannel ==
    /\ rxCnt' = rxCnt - 1
    /\ closed' = TRUE
    /\ UNCHANGED <<numTx, tail, buffer, chanLog, lost, acceptLoop>>

\* what a failed write_packet does to the rest of the system: the task
\* breaks out of its loop and its broadcast::Receiver is dropped
WriteFailEffect ==
    /\ rxCnt' = rxCnt - 1
    /\ UNCHANGED <<numTx, tail, closed, buffer, chanLog, lost, acceptLoop>>

\* write_packet returns Err: one of its socket writes failed
WriteFail(w) ==
    /\ pc[w] = "write"
    /\ pc' = [pc EXCEPT ![w] = "failed"]
    /\ cur' = [cur EXCEPT ![w] = NoPacket]
    /\ WriteFailEffect
    /\ UNCHANGED <<appVars, recvVars, codecVars, sockVars, histVars, lockVars, nConn, next, taken, sock,
                   subPos, subSent, skipped, lastRecv, prevRecv>>

(***************************************************************************)
(* The decoder.                                                            *)
(***************************************************************************)
\* u32::from_le_bytes
FromLE32(b) == b[1] + 256 * b[2] + 65536 * b[3] + 16777216 * b[4]

\* u32::from_be_bytes
FromBE32(b) == 16777216 * b[1] + 65536 * b[2] + 256 * b[3] + b[4]

\* the block well formed: <<count, byte>> pairs with counts of at least
\* one, then the closing 0 and nothing after it; the empty input is not a
\* block
RECURSIVE BlockOk(_)
BlockOk(x) ==
    IF x = <<>> THEN FALSE
    ELSE IF x[1] = 0 THEN Len(x) = 1
    ELSE Len(x) >= 3 /\ BlockOk(SubSeq(x, 3, Len(x)))

\* (faulty variant) run counts are ignored
RECURSIVE ExpandOnce(_)
ExpandOnce(x) ==
    IF x[1] = 0 THEN <<>>
    ELSE <<x[2]>> \o ExpandOnce(SubSeq(x, 3, Len(x)))

\* the bytes a well-formed block stands for
RECURSIVE Expand(_)
Expand(x) ==
    IF x[1] = 0 THEN <<>>
    ELSE [i \in 1..x[1] |-> x[2]] \o Expand(SubSeq(x, 3, Len(x)))

\* lz4_flex::decompress_into(input, output): the bytes go to the front of
\* the output slice; an error when the block is malformed or the slice is
\* too small for them
DecompressInto(input, out) ==
    IF ~BlockOk(input) THEN [ok |-> FALSE, size |-> 0, out |-> out]
    ELSE LET e == Expand(input)
         IN  IF Len(e) > Len(out)
             THEN [ok |-> FALSE, size |-> 0,
                   out |-> [i \in 1..Len(out) |-> e[i]]]
             ELSE [ok |-> TRUE, size |-> Len(e),
                   out |-> e \o SubSeq(out, Len(e) + 1, Len(out))]

\* BytesMut::resize(n, 0)
Resize(b, n) ==
    IF n <= Len(b) THEN SubSeq(b, 1, n)
    ELSE b \o [i \in 1..(n - Len(b)) |-> 0]

\* (faulty variant) the destination is emptied before the input is looked at
DecodeIntoClearsFirst(data, dst) ==
    IF Len(data) < 4
    THEN [ok |-> FALSE, msg |-> "Data too short for header", dst |-> <<>>]
    ELSE LET uncompressed_size == FromLE32(SubSeq(data, 1, 4))
             sized == Resize(<<>>, uncompressed_size)
             d == DecompressInto(SubSeq(data, 5, Len(data)), sized)
         IN  IF d.ok
             THEN [ok |-> TRUE, msg |-> "", dst |-> d.out]
             ELSE [ok |-> FALSE, msg |-> "Decompression error", dst |-> d.out]

\* (faulty variant) the codec bytes are handed on as they are
DecodeIntoRaw(data, dst) ==
    [ok |-> TRUE, msg |-> "", dst |-> dst \o SubSeq(data, 5, Len(data))]

\* Lz4Codec::decode_into(data, dst): the result and dst afterwards
DecodeInto(data, dst) ==
    IF Len(data) < 4
    THEN [ok |-> FALSE, msg |-> "Data too short for header", dst |-> dst]
    ELSE LET uncompressed_size == FromLE32(SubSeq(data, 1, 4))
             sized == Resize(dst, uncompressed_size)
             d == DecompressInto(SubSeq(data, 5, Len(data)), sized)
         IN  IF d.ok
             THEN [ok |-> TRUE, msg |-> "", dst |-> d.out]
             ELSE [ok |-> FALSE, msg |-> "Decompression error", dst |-> d.out]

\* Lz4Codec::decode(data): decode_into on a fresh buffer, then freeze
Decode(data) ==
    LET r == DecodeInto(data, <<>>)
    IN  [ok |-> r.ok, msg |-> r.msg, bytes |-> IF r.ok THEN r.dst ELSE <<>>]

\* enum PixelFormat
PixelFormat == {"UYVY", "UYVA", "BGRA", "NV12", "YV12", "P216", "PA16"}

\* format as u8: the discriminant of the #[repr(u8)] enum
AsU8(f) ==
    CASE f = "UYVY" -> 0 [] f = "UYVA" -> 1 [] f = "BGRA" -> 2 [] f = "NV12" -> 3
      [] f = "YV12" -> 4 [] f = "P216" -> 5 [] f = "PA16" -> 6

\* (faulty variant) the two 4:2:0 planar formats exchanged
FromU8Swapped(n) ==
    CASE n = 0 -> "UYVY" [] n = 1 -> "UYVA" [] n = 2 -> "BGRA" [] n = 3 -> "YV12"
      [] n = 4 -> "NV12" [] n = 5 -> "P216" [] n = 6 -> "PA16" [] OTHER -> "None"

\* PixelFormat::from_u8
FromU8(n) ==
    CASE n = 0 -> "UYVY" [] n = 1 -> "UYVA" [] n = 2 -> "BGRA" [] n = 3 -> "NV12"
      [] n = 4 -> "YV12" [] n = 5 -> "P216" [] n = 6 -> "PA16" [] OTHER -> "None"

\* (faulty variant) no format byte is refused
FormatAlwaysKnown(n) == TRUE

\* PixelFormat::from_u8 is Some
FormatKnown(n) == FromU8(n) # "None"

\* U+FFFD in UTF-8
Replacement == <<239, 191, 189>>

\* (faulty variant) every byte that is not ASCII is replaced
RECURSIVE Utf8LossyAscii(_)
Utf8LossyAscii(b) ==
    IF b = <<>> THEN <<>>
    ELSE IF b[1] < 128 THEN <<b[1]>> \o Utf8LossyAscii(Tail(b))
    ELSE <<239, 191, 189>> \o Utf8LossyAscii(Tail(b))

\* String::from_utf8_lossy(..).to_string(): well-formed sequences are kept,
\* every other byte becomes U+FFFD (sequences of one and two bytes; the
\* bytes of the model stay below the three-byte lead bytes)
RECURSIVE Utf8Lossy(_)
Utf8Lossy(b) ==
    IF b = <<>> THEN <<>>
    ELSE IF b[1] < 128 THEN <<b[1]>> \o Utf8Lossy(Tail(b))
    ELSE IF b[1] \in 194..223 /\ Len(b) >= 2 /\ b[2] \in 128..191
    THEN <<b[1], b[2]>> \o Utf8Lossy(SubSeq(b, 3, Len(b)))
    ELSE Replacement \o Utf8Lossy(Tail(b))

(***************************************************************************)
(* Receiver::receive.                                                      *)
(***************************************************************************)
NoFrame == [kind |-> "none", head |-> <<>>, data |-> <<>>]

NoResult == [kind |-> "none", msg |-> "", frame |-> NoFrame]

Err(kind, msg) == [kind |-> kind, msg |-> msg, frame |-> NoFrame]

\* Io(ErrorKind::UnexpectedEof)
UnexpectedEof == Err("Io", "UnexpectedEof")

\* a frame returned to the caller: its fixed fields as they stand on the
\* wire, and its data
Ok(kind, head, data) ==
    [kind |-> "Packet", msg |-> "", frame |-> [kind |-> kind, head |-> head, data |-> data]]

\* the match on type_id over the payload split from the buffer: the value
\* receive returns and the decompression buffer afterwards; a get_u32 or
\* get_u64 past the end of the payload panics
Dispatch(type_id, payload, dst) ==
    LET len == Len(payload)
        rest(k) == SubSeq(payload, k + 1, len)
    IN  CASE type_id = TYPE_VIDEO ->
                IF len < 21
                THEN [ret |-> Err("Protocol", "Video packet too short"), dst |-> dst]
                ELSE IF ~FormatKnown(payload[9])
                THEN [ret |-> Err("Protocol", "Invalid pixel format"), dst |-> dst]
                ELSE LET d == DecodeInto(rest(17), dst)
                     IN  IF d.ok
                         THEN [ret |-> Ok("Video", SubSeq(payload, 1, 17), d.dst),
                               dst |-> <<>>]
                         ELSE [ret |-> Err("Protocol", d.msg), dst |-> d.dst]
          [] type_id = TYPE_AUDIO ->
                IF len < 16
                THEN [ret |-> Err("panic", "get past the end"), dst |-> dst]
                ELSE [ret |-> Ok("Audio", SubSeq(payload, 1, 16), rest(16)), dst |-> dst]
          [] type_id = TYPE_METADATA ->
                IF len < 8
                THEN [ret |-> Err("panic", "get past the end"), dst |-> dst]
                ELSE [ret |-> Ok("Metadata", SubSeq(payload, 1, 8), Utf8Lossy(rest(8))),
                      dst |-> dst]
          [] OTHER -> [ret |-> Err("Protocol", "Unknown packet type"), dst |-> dst]

\* the application calls receive
ReceiveCall ==
    /\ rpc = "idle"
    /\ calls < MaxCalls
    /\ result.kind # "panic"
    /\ calls' = calls + 1
    /\ rpc' = "hdr"
    /\ result' = NoResult
    /\ UNCHANGED <<wire, fin, rbuf, dbuf, rtype, rlen, appVars, chanVars, taskVars, codecVars, sockVars, histVars, lockVars>>

\* stream.read_buf returns k > 0 bytes
ReadInto(k) ==
    /\ k \in 1..Len(wire)
    /\ rbuf' = rbuf \o SubSeq(wire, 1, k)
    /\ wire' = SubSeq(wire, k + 1, Len(wire))

\* stream.read_buf returns 0: the peer has closed and nothing is left
AtEof == wire = <<>> /\ fin

\* first loop, the read returns bytes
HeaderRead(k) ==
    /\ rpc = "hdr"
    /\ Len(rbuf) < HeaderLen
    /\ ReadInto(k)
    /\ UNCHANGED <<fin, dbuf, rpc, rtype, rlen, result, calls, appVars, chanVars, taskVars, codecVars, sockVars, histVars, lockVars>>

\* what receive returns when the first loop's read returns 0
HeaderEofResult ==
    IF rbuf = <<>> THEN UnexpectedEof
    ELSE Err("Protocol", "Connection closed incomplete")

\* first loop, the read returns 0
HeaderEof ==
    /\ rpc = "hdr"
    /\ Len(rbuf) < HeaderLen
    /\ AtEof
    /\ result' = HeaderEofResult
    /\ rpc' = "idle"
    /\ UNCHANGED <<wire, fin, rbuf, dbuf, rtype, rlen, calls, appVars, chanVars, taskVars, codecVars, sockVars, histVars, lockVars>>

\* (faulty variant) the ceiling itself is refused
TooLargeAtCeiling(len) == len >= MaxPayload

\* the safety check on the declared length
TooLarge(len) == len > MaxPayload

\* the header is buffered: peek it and check the declared length
HeaderPeek ==
    /\ rpc = "hdr"
    /\ Len(rbuf) >= HeaderLen
    /\ LET type_id == rbuf[1]
           len == FromBE32(SubSeq(rbuf, 2, 5))
       IN  IF TooLarge(len)
           THEN /\ result' = Err("Protocol", "Packet too large")
                /\ rpc' = "idle"
                /\ UNCHANGED <<rtype, rlen>>
           ELSE /\ rpc' = "body"
                /\ rtype' = type_id
                /\ rlen' = len
                /\ UNCHANGED result
    /\ UNCHANGED <<wire, fin, rbuf, dbuf, calls, appVars, chanVars, taskVars, codecVars, sockVars, histVars, lockVars>>

\* second loop, the read returns bytes
BodyRead(k) ==
    /\ rpc = "body"
    /\ Len(rbuf) < HeaderLen + rlen
    /\ ReadInto(k)
    /\ UNCHANGED <<fin, dbuf, rpc, rtype, rlen, result, calls, appVars, chanVars, taskVars, codecVars, sockVars, histVars, lockVars>>

\* what receive returns when the second loop's read returns 0
BodyEofResult == UnexpectedEof

\* second loop, the read returns 0
BodyEof ==
    /\ rpc = "body"
    /\ Len(rbuf) < HeaderLen + rlen
    /\ AtEof
    /\ result' = BodyEofResult
    /\ rpc' = "idle"
    /\ UNCHANGED <<wire, fin, rbuf, dbuf, rtype, rlen, calls, appVars, chanVars, taskVars, codecVars, sockVars, histVars, lockVars>>

\* either loop, the read fails: the ? returns the error
ReadErr ==
    /\ \/ rpc = "hdr" /\ Len(rbuf) < HeaderLen
       \/ rpc = "body" /\ Len(rbuf) < HeaderLen + rlen
    /\ result' = Err("Io", "ConnectionReset")
    /\ rpc' = "idle"
    /\ UNCHANGED <<wire, fin, rbuf, dbuf, rtype, rlen, calls, appVars, chanVars, taskVars, codecVars, sockVars, histVars, lockVars>>

\* (faulty variant) the buffer is emptied with every record taken from it
RemainderCleared(buf, len) == <<>>

\* buffer.advance(5); buffer.split_to(len): what stays in the buffer
Remainder(buf, len) == SubSeq(buf, HeaderLen + len + 1, Len(buf))

\* the record is buffered: consume the header, split the payload, parse
BodyDone ==
    /\ rpc = "body"
    /\ Len(rbuf) >= HeaderLen + rlen
    /\ LET payload == SubSeq(rbuf, HeaderLen + 1, HeaderLen + rlen)
           d == Dispatch(rtype, payload, dbuf)
       IN  /\ result' = d.ret
           /\ dbuf' = d.dst
           /\ delivered' = Append(delivered, d.ret)
    /\ consumed' = consumed \o SubSeq(rbuf, 1, HeaderLen + rlen)
    /\ rbuf' = Remainder(rbuf, rlen)
    /\ rpc' = "idle"
    /\ UNCHANGED <<wire, fin, rtype, rlen, calls, abandons, appVars, chanVars, taskVars, codecVars, sockVars, lockVars>>

\* (faulty variant) the bytes read so far belong to the call and go with it
AbandonedBufferLost == <<>>

\* the receive buffer of a call that is dropped: a field of the Receiver,
\* it stays as the reads left it
AbandonedBuffer == rbuf

\* the future of a receive call is dropped while it waits in read_buf in
\* either loop: its locals are gone, nothing is returned, and the call is
\* not counted
Abandon ==
    /\ \/ rpc = "hdr" /\ Len(rbuf) < HeaderLen
       \/ rpc = "body" /\ Len(rbuf) < HeaderLen + rlen
    /\ abandons < MaxAbandon
    /\ abandons' = abandons + 1
    /\ calls' = calls - 1
    /\ rpc' = "idle"
    /\ rtype' = 0
    /\ rlen' = 0
    /\ rbuf' = AbandonedBuffer
    /\ UNCHANGED <<wire, fin, dbuf, result, consumed, delivered,
                   appVars, chanVars, taskVars, codecVars, sockVars, lockVars>>

(***************************************************************************)
(* The fan-out specification.                                              *)
(***************************************************************************)
\* a call of the codec or of PixelFormat::from_u8: the operation, its
\* input, the destination buffer before the call, whether it returned Ok,
\* the error message, the destination (or the value returned) after it,
\* and, for a decoding of what an encoding produced, <<the data encoded>>
Call(op, input, before, ok, msg, after, origin) ==
    [op |-> op, input |-> input, before |-> before, ok |-> ok, msg |-> msg,
     after |-> after, origin |-> origin]

\* no call yet
NoCall == Call("none", <<>>, <<>>, TRUE, "", <<>>, <<>>)

\* the application's threads that call send, each on its clone of the Sender
Threads == {1, 2}

\* a Bytes value: a part of the shared storage, or memory of its own
NoBytes == [mem |-> "none", start |-> 0, len |-> 0, bytes |-> <<>>]

\* a thread that is not in a send call
IdleThread == [pc |-> "idle", packet |-> NoPacket, start_len |-> 0, out |-> NoBytes]

\* after Sender::new
InitSender ==
    /\ codecCall = NoCall
    /\ arena = <<>>
    /\ cbuf = [start |-> 0, len |-> 0]
    /\ holder = 0
    /\ thr = [t \in Threads |-> IdleThread]
    /\ published = <<>>
    /\ consumed = <<>>
    /\ delivered = <<>>
    /\ abandons = 0
    /\ sockBytes = [w \in Writers |-> <<>>]
    /\ wfield = [w \in Writers |-> 1]
    /\ appSenders = 1
    /\ sendCount = 0
    /\ sendResult = "none"
    /\ sent = NoPacket
    /\ fallback = FALSE
    /\ handed = <<>>
    /\ compression_buffer = <<>>
    /\ poisoned = FALSE
    /\ numTx = 2          \* tx and the accept loop's tx_clone
    /\ rxCnt = 0          \* the receiver channel() returned is dropped
    /\ tail = 0
    /\ closed = FALSE
    /\ buffer = InitBuffer
    /\ chanLog = <<>>
    /\ lost = {}
    /\ acceptLoop = "running"
    /\ nConn = 0
    /\ pc = [w \in Writers |-> "idle"]
    /\ next = [w \in Writers |-> 0]
    /\ cur = [w \in Writers |-> NoPacket]
    /\ taken = [w \in Writers |-> <<>>]
    /\ sock = [w \in Writers |-> <<>>]
    /\ subPos = [w \in Writers |-> 0]
    /\ subSent = [w \in Writers |-> 0]
    /\ skipped = [w \in Writers |-> 0]
    /\ lastRecv = [w \in Writers |-> NoRecv]
    /\ prevRecv = [w \in Writers |-> NoRecv]

\* after Receiver::connect, nothing sent by the peer
InitReceiver ==
    /\ wire = <<>>
    /\ fin = FALSE
    /\ rbuf = <<>>
    /\ dbuf = <<>>
    /\ rpc = "idle"
    /\ rtype = 0
    /\ rlen = 0
    /\ result = NoResult
    /\ calls = 0

Init == InitSender /\ InitReceiver

\* the application's next send call; the packets are PacketOf(0), PacketOf(1), ...
SendNext ==
    /\ IF TxSendStores THEN tail < MaxPub ELSE sendCount - tail < MaxLost
    /\ Send(PacketOf(sendCount))

\* the fan-out while the application holds its Sender and the listener works
Next ==
    \/ SendNext
    \/ Accept
    \/ \E w \in Writers : Recv(w)
    \/ \E w \in Writers : WriteOk(w)
    \/ \E w \in Writers : WriteFail(w)

Spec == Init /\ [][Next]_vars

(***************************************************************************)
(* The life cycle: Sender handles are cloned and dropped, the accept loop  *)
(* may end, over a short run of packets.                                   *)
(***************************************************************************)
SendLife ==
    /\ IF TxSendStores THEN tail < MaxPubLife ELSE sendCount - tail < MaxLost
    /\ Send(PacketOf(sendCount))

NextLife ==
    \/ SendLife
    \/ CloneSender
    \/ DropSender
    \/ Accept
    \/ AcceptFail
    \/ \E w \in Writers : Recv(w)
    \/ \E w \in Writers : WriteOk(w)
    \/ \E w \in Writers : WriteFail(w)

SpecLife == Init /\ [][NextLife]_vars

(***************************************************************************)
(* Sender::send on its own: any kind of packet, any small payload, and a   *)
(* compression-buffer lock that may be poisoned.                           *)
(***************************************************************************)
Bit == {0, 1}

\* the byte strings of at most n bits-as-bytes
RECURSIVE BytesUpTo(_)
BytesUpTo(n) ==
    IF n = 0 THEN {<<>>}
    ELSE LET shorter == BytesUpTo(n - 1)
         IN  shorter \cup {Append(x, b) : x \in {y \in shorter : Len(y) = n - 1}, b \in Bit}

SendInputs == {Packet(sendCount, k, d) : k \in Kinds, d \in BytesUpTo(MaxData)}

SendAny ==
    /\ sendCount < MaxSendCalls
    /\ \E p \in SendInputs : Send(p)

NextSend ==
    \/ SendAny
    \/ sendCount < MaxSendCalls /\ SendPanics
    \/ CloneSender
    \/ DropSender
    \/ Accept

SpecSend == Init /\ [][NextSend]_vars

(***************************************************************************)
(* Receiver::receive against a byte stream.                                *)
(***************************************************************************)
\* write_u32: big endian
BE32(n) ==
    <<(n \div 16777216) % 256, (n \div 65536) % 256, (n \div 256) % 256, n % 256>>

Record(type_id, len, payload) == <<type_id>> \o BE32(len) \o payload

Zeros(n) == [i \in 1..n |-> 0]

\* the records the peer sends in SpecRecv
SampleRecords ==
    { Record(TYPE_METADATA, 9, Zeros(8) \o <<60>>),
      Record(TYPE_AUDIO, 17, Zeros(16) \o <<7>>),
      Record(TYPE_VIDEO, 24, Zeros(8) \o <<2>> \o Zeros(8) \o LE32(2) \o <<2, 9, 0>>),
      Record(TYPE_METADATA, MaxPayload, <<1, 2>>),
      Record(TYPE_METADATA, MaxPayload + 1, <<1, 2>>),
      Record(7, 0, <<>>) }

Prefixes(x) == {SubSeq(x, 1, n) : n \in 0..Len(x)}

\* what the peer sends before it stops or closes: at most two records, the
\* last one possibly cut short
Streams ==
    UNION {Prefixes(a \o b) : a \in SampleRecords, b \in SampleRecords \cup {<<>>}}

InitRecv ==
    /\ InitSender
    /\ wire \in Streams
    /\ fin \in BOOLEAN
    /\ rbuf = <<>>
    /\ dbuf = <<>>
    /\ rpc = "idle"
    /\ rtype = 0
    /\ rlen = 0
    /\ result = NoResult
    /\ calls = 0

\* the sizes a read may return: up to MaxChunk bytes, or all that is there
Chunks == (1..MaxChunk) \cup {Len(wire)}

NextRecv ==
    \/ ReceiveCall
    \/ \E k \in Chunks : HeaderRead(k)
    \/ HeaderEof
    \/ HeaderPeek
    \/ \E k \in Chunks : BodyRead(k)
    \/ BodyEof
    \/ ReadErr
    \/ BodyDone

SpecRecv == InitRecv /\ [][NextRecv]_vars

(***************************************************************************)
(* Receiver::receive against records that break a rule of the format.      *)
(***************************************************************************)
\* a Video payload: width, height, format byte, timestamp, codec bytes
VideoPayload(fmt, codec) == Zeros(8) \o <<fmt>> \o Zeros(8) \o codec

\* records of an unknown type, with an unknown pixel format, shorter than
\* the fixed fields of their type
BadRecords ==
    { Record(0, 0, <<>>),
      Record(4, 2, <<1, 2>>),
      Record(255, 1, <<9>>),
      Record(TYPE_VIDEO, 24, VideoPayload(7, LE32(2) \o <<2, 9, 0>>)),
      Record(TYPE_VIDEO, 24, VideoPayload(255, LE32(2) \o <<2, 9, 0>>)),
      Record(TYPE_VIDEO, 20, VideoPayload(2, <<2, 0, 0>>)),
      Record(TYPE_VIDEO, 0, <<>>),
      Record(TYPE_AUDIO, 15, Zeros(15)),
      Record(TYPE_AUDIO, 0, <<>>),
      Record(TYPE_METADATA, 7, Zeros(7)),
      Record(TYPE_METADATA, 0, <<>>) }

\* records that keep every rule
GoodRecords ==
    { Record(TYPE_VIDEO, 24, VideoPayload(6, LE32(2) \o <<2, 9, 0>>)),
      Record(TYPE_AUDIO, 16, Zeros(16)),
      Record(TYPE_METADATA, 8, Zeros(8)) }

\* one record of either sort, then possibly a good one, cut anywhere
ParseStreams ==
    UNION {Prefixes(a \o b) : a \in BadRecords \cup GoodRecords,
                              b \in {<<>>, Record(TYPE_METADATA, 8, Zeros(8))}}

InitParse ==
    /\ InitSender
    /\ wire \in ParseStreams
    /\ fin \in BOOLEAN
    /\ rbuf = <<>>
    /\ dbuf = <<>>
    /\ rpc = "idle"
    /\ rtype = 0
    /\ rlen = 0
    /\ result = NoResult
    /\ calls = 0

SpecParse == InitParse /\ [][NextRecv]_vars

(***************************************************************************)
(* Receiver::receive called again: after a call that was abandoned, and    *)
(* after a call that returned an error for the record it took.             *)
(***************************************************************************)
\* the first record of the stream: good ones, and ones the match on the
\* type refuses (unknown type, unknown pixel format, a Video payload under
\* 21 bytes, a block that yields three bytes where two are declared, a
\* block that is cut off)
FirstRecords ==
    { Record(TYPE_METADATA, 9, Zeros(8) \o <<60>>),
      Record(TYPE_VIDEO, 24, VideoPayload(2, LE32(2) \o <<2, 5, 0>>)),
      Record(4, 2, <<1, 2>>),
      Record(TYPE_VIDEO, 24, VideoPayload(7, LE32(2) \o <<2, 9, 0>>)),
      Record(TYPE_VIDEO, 20, VideoPayload(2, <<2, 0, 0>>)),
      Record(TYPE_VIDEO, 26, VideoPayload(2, LE32(2) \o <<2, 9, 1, 9, 0>>)),
      Record(TYPE_VIDEO, 23, VideoPayload(2, LE32(2) \o <<2, 9>>)) }

\* the record after it: a Metadata frame, a Video frame of two bytes, a
\* Video frame that declares two bytes and whose block yields one
SecondRecords ==
    { Record(TYPE_METADATA, 9, Zeros(8) \o <<62>>),
      Record(TYPE_VIDEO, 24, VideoPayload(2, LE32(2) \o <<2, 5, 0>>)),
      Record(TYPE_VIDEO, 24, VideoPayload(2, LE32(2) \o <<1, 5, 0>>)) }

\* where the peer may stop: inside the first header, inside the first
\* body, after both records
Cuts(x) == {SubSeq(x, 1, n) : n \in {3, 7, Len(x)}}

AgainStreams == UNION {Cuts(a \o b) : a \in FirstRecords, b \in SecondRecords}

InitAgain ==
    /\ InitSender
    /\ wire \in AgainStreams
    /\ fin \in BOOLEAN
    /\ rbuf = <<>>
    /\ dbuf = <<>>
    /\ rpc = "idle"
    /\ rtype = 0
    /\ rlen = 0
    /\ result = NoResult
    /\ calls = 0

NextAgain ==
    \/ NextRecv
    \/ Abandon

SpecAgain == InitAgain /\ [][NextAgain]_vars

(***************************************************************************)
(* The round trip: send, write_packet on the connection's socket, receive. *)
(***************************************************************************)
\* a std::time::Duration: as_micros() as the sixteen bytes of the u128,
\* most significant first, and the nanoseconds below a whole microsecond
Duration(micros, nanos) == [micros |-> micros, nanos |-> nanos]

\* timestamp.as_micros() as u64, as write_u64 puts it on the wire: the low
\* eight bytes of the u128
MicrosAsU64(ts) == SubSeq(ts.micros, 9, 16)

\* Duration::from_micros of the u64 that get_u64 reads
FromMicros(b) == Duration(Zeros(8) \o b, 0)

VideoFrame(id, width, height, format, timestamp, data) ==
    [id |-> id, kind |-> "Video", width |-> width, height |-> height,
     format |-> format, timestamp |-> timestamp, data |-> data]

AudioFrame(id, sample_rate, channels, timestamp, data) ==
    [id |-> id, kind |-> "Audio", sample_rate |-> sample_rate, channels |-> channels,
     timestamp |-> timestamp, data |-> data]

\* data holds the bytes of the content string
MetadataFrame(id, timestamp, content) ==
    [id |-> id, kind |-> "Metadata", timestamp |-> timestamp, data |-> content]

\* write_packet: the bytes of the record (the lengths of the model stay
\* below 2^32, so the casts to u32 change nothing)
WritePacket(p) ==
    CASE p.kind = "Video" ->
            <<TYPE_VIDEO>> \o BE32(4 + 4 + 1 + 8 + Len(p.data))
              \o BE32(p.width) \o BE32(p.height) \o <<AsU8(p.format)>>
              \o MicrosAsU64(p.timestamp) \o p.data
      [] p.kind = "Audio" ->
            <<TYPE_AUDIO>> \o BE32(4 + 4 + 8 + Len(p.data))
              \o BE32(p.sample_rate) \o BE32(p.channels)
              \o MicrosAsU64(p.timestamp) \o p.data
      [] p.kind = "Metadata" ->
            <<TYPE_METADATA>> \o BE32(8 + Len(p.data))
              \o MicrosAsU64(p.timestamp) \o p.data

\* timestamps: zero, 5 microseconds and 250 nanoseconds, 2^64 microseconds
Timestamps ==
    { Duration(Zeros(16), 0),
      Duration(Zeros(15) \o <<5>>, 250),
      Duration(Zeros(7) \o <<1>> \o Zeros(8), 0) }

\* content strings (a String holds well-formed UTF-8): "", "<", "e acute",
\* "<tally/>"
Contents ==
    { <<>>, <<60>>, <<195, 169>>, <<60, 116, 97, 108, 108, 121, 47, 62>> }

\* frame data: none, one byte, two different bytes, a run of two
TripData == {<<>>, <<1>>, <<0, 1>>, <<1, 1>>}

\* the packets the application sends in SpecTrip
TripInputs ==
    {VideoFrame(sendCount, 4, 4, f, Duration(Zeros(16), 0), Zeros(64)) : f \in PixelFormat}
    \cup {VideoFrame(sendCount, 1920, 1080, "BGRA", ts, d) :
              ts \in Timestamps, d \in TripData}
    \cup {AudioFrame(sendCount, 48000, 2, ts, d) :
              ts \in Timestamps, d \in TripData}
    \cup {MetadataFrame(sendCount, ts, c) : ts \in Timestamps, c \in Contents}

\* the connection is open, the Receiver has consumed what was sent, and the
\* bound of the model lets the application send
MayTransmit ==
    /\ sendCount < MaxTrip
    /\ ~fin
    /\ rbuf \o wire = <<>>

\* the bytes on the socket when one of write_packet's writes fails: those
\* of the writes before it (type, length, the fixed fields one by one)
CutPoints(p) ==
    CASE p.kind = "Video" -> {1, 5, 9, 13, 14, 22}
      [] p.kind = "Audio" -> {1, 5, 9, 13, 21}
      [] p.kind = "Metadata" -> {1, 5, 13}

\* send(p), and the connection's writer task writes the published packet's
\* record to the socket the Receiver reads: all of it, or, when a socket
\* write fails, the bytes written before, and the task ends and its socket
\* is closed; a packet is sent once the Receiver has consumed the one
\* before
TransmitBytes(p, whole) ==
    /\ MayTransmit
    /\ LET c == IF p.kind = "Video" THEN SendCompress(p.data)
                ELSE [ok |-> TRUE, bytes |-> p.data, buf |-> compression_buffer,
                      fallback |-> FALSE]
           q == [p EXCEPT !.data = c.bytes]
       IN  /\ c.ok
           /\ compression_buffer' = c.buf
           /\ fallback' = c.fallback
           /\ sent' = p
           /\ handed' = <<q>>
           /\ sendResult' = "Ok"
           /\ IF whole
              THEN wire' = WritePacket(q) /\ UNCHANGED fin
              ELSE /\ \E k \in CutPoints(q) : wire' = SubSeq(WritePacket(q), 1, k)
                   /\ fin' = TRUE
    /\ sendCount' = sendCount + 1
    /\ UNCHANGED <<appSenders, poisoned, chanVars, taskVars, codecVars, sockVars, histVars, lockVars,
                   rbuf, dbuf, rpc, rtype, rlen, result, calls>>

Transmit(p) == TransmitBytes(p, TRUE)

TransmitCut(p) == TransmitBytes(p, FALSE)

\* the writer task ends and its socket is closed
PeerClose ==
    /\ ~fin
    /\ fin' = TRUE
    /\ UNCHANGED <<appVars, chanVars, taskVars, codecVars, sockVars, histVars, lockVars, wire, rbuf, dbuf, rpc, rtype, rlen,
                   result, calls>>

NextTrip ==
    \/ MayTransmit /\ \E p \in TripInputs : Transmit(p)
    \/ MayTransmit /\ \E p \in TripInputs : TransmitCut(p)
    \/ PeerClose
    \/ NextRecv

SpecTrip == Init /\ [][NextTrip]_vars

(***************************************************************************)
(* handle_receiver and write_packet, write by write, on each task's own    *)
(* socket.                                                                 *)
(***************************************************************************)
\* the packet the application passes to its i-th send call in SpecWrite
FrameOf(i) ==
    CASE i % 3 = 0 -> VideoFrame(i, i + 1, 1, "BGRA", Duration(Zeros(15) \o <<5>>, 0), <<i % 2>>)
      [] i % 3 = 1 -> AudioFrame(i, 48000, i + 1, Duration(Zeros(16), 0), <<7>>)
      [] OTHER -> MetadataFrame(i, Duration(Zeros(15) \o <<i>>, 0), <<60>>)

\* the socket writes of write_packet, in order, each with its bytes
WriteCalls(p) ==
    CASE p.kind = "Video" ->
            << <<TYPE_VIDEO>>, BE32(4 + 4 + 1 + 8 + Len(p.data)),
               BE32(p.width), BE32(p.height), <<AsU8(p.format)>>,
               MicrosAsU64(p.timestamp), p.data >>
      [] p.kind = "Audio" ->
            << <<TYPE_AUDIO>>, BE32(4 + 4 + 8 + Len(p.data)),
               BE32(p.sample_rate), BE32(p.channels),
               MicrosAsU64(p.timestamp), p.data >>
      [] p.kind = "Metadata" ->
            << <<TYPE_METADATA>>, BE32(8 + Len(p.data)),
               MicrosAsU64(p.timestamp), p.data >>

SendFrame ==
    /\ sendCount < MaxWriteSends
    /\ Send(FrameOf(sendCount))

\* one write of write_packet completes; after the last one write_packet
\* returns Ok and the task goes back to rx.recv()
WriteField(w) ==
    /\ pc[w] = "write"
    /\ LET calls_ == WriteCalls(cur[w])
           i == wfield[w]
       IN  /\ sockBytes' = [sockBytes EXCEPT ![w] = @ \o calls_[i]]
           /\ IF i < Len(calls_)
              THEN /\ wfield' = [wfield EXCEPT ![w] = i + 1]
                   /\ UNCHANGED <<pc, cur, sock>>
              ELSE /\ wfield' = [wfield EXCEPT ![w] = 1]
                   /\ pc' = [pc EXCEPT ![w] = "recv"]
                   /\ sock' = [sock EXCEPT ![w] = Append(@, cur[w].id)]
                   /\ cur' = [cur EXCEPT ![w] = NoPacket]
    /\ UNCHANGED <<appVars, recvVars, codecVars, lockVars, histVars, chanVars, acceptLoop,
                   nConn, next, taken, subPos, subSent, skipped, lastRecv, prevRecv>>

\* (faulty variant) the task logs the error and takes the next packet
AfterWriteErrorGoesOn == "recv"

\* where handle_receiver is after write_packet returned Err: out of its loop
AfterWriteError == "failed"

\* one write of write_packet fails after k of its bytes went out: the ?
\* returns the error, the task breaks out of its loop and its
\* broadcast::Receiver is dropped
WriteFieldFail(w, k) ==
    /\ pc[w] = "write"
    /\ LET b == WriteCalls(cur[w])[wfield[w]]
       IN  /\ k < Len(b)
           /\ sockBytes' = [sockBytes EXCEPT ![w] = @ \o SubSeq(b, 1, k)]
    /\ wfield' = [wfield EXCEPT ![w] = 1]
    /\ pc' = [pc EXCEPT ![w] = AfterWriteError]
    /\ cur' = [cur EXCEPT ![w] = NoPacket]
    /\ WriteFailEffect
    /\ UNCHANGED <<appVars, recvVars, codecVars, lockVars, histVars, nConn, next, taken, sock,
                   subPos, subSent, skipped, lastRecv, prevRecv>>

\* the bytes of a write that may have gone out before it failed
Partial == 0..7

NextWrite ==
    \/ SendFrame
    \/ Accept
    \/ \E w \in Writers : Recv(w)
    \/ \E w \in Writers : WriteField(w)
    \/ \E w \in Writers, k \in Partial : WriteFieldFail(w, k)

SpecWrite == Init /\ [][NextWrite]_vars

(***************************************************************************)
(* The codec, PixelFormat::from_u8 and the length field of write_packet,   *)
(* each called on its own.                                                 *)
(***************************************************************************)
\* the frame data given to the encoder
CodecInputs == BytesUpTo(MaxData)

\* destination buffers a caller passes: empty, or holding earlier content
Buffers == {<<>>, <<7>>, <<7, 8, 9>>}

\* byte strings given to the decoder: shorter than the size field; a size
\* field of 0..MaxDeclared before the block of some data, equal to the
\* length of that data or not; a size field before a broken block
DecodeInputs ==
    {<<>>, <<1>>, <<1, 0>>, <<2, 0, 0>>}
    \cup {LE32(n) \o CompressBlock(x) : n \in 0..MaxDeclared, x \in CodecInputs}
    \cup {LE32(2), LE32(2) \o <<2>>, LE32(1) \o <<1, 9, 0, 5>>}

CallEncode(x) ==
    /\ LET r == Encode(x)
       IN  codecCall' = Call("encode", x, <<>>, r.ok, "", r.bytes, <<x>>)
    /\ UNCHANGED <<appVars, chanVars, taskVars, recvVars, lockVars, histVars, sockVars>>

CallEncodeInto(x, dst) ==
    /\ LET r == EncodeInto(x, dst)
       IN  codecCall' = Call("encode_into", x, dst, r.ok, "", r.dst, <<x>>)
    /\ UNCHANGED <<appVars, chanVars, taskVars, recvVars, lockVars, histVars, sockVars>>

CallDecode(data, origin) ==
    /\ LET r == Decode(data)
       IN  codecCall' = Call("decode", data, <<>>, r.ok, r.msg, r.bytes, origin)
    /\ UNCHANGED <<appVars, chanVars, taskVars, recvVars, lockVars, histVars, sockVars>>

CallDecodeInto(data, dst, origin) ==
    /\ LET r == DecodeInto(data, dst)
       IN  codecCall' = Call("decode_into", data, dst, r.ok, r.msg, r.dst, origin)
    /\ UNCHANGED <<appVars, chanVars, taskVars, recvVars, lockVars, histVars, sockVars>>

\* the output of an encoding into an empty buffer is given to the decoder,
\* with an empty destination
DecodeBack ==
    /\ codecCall.op \in {"encode", "encode_into"}
    /\ codecCall.ok
    /\ codecCall.before = <<>>
    /\ \/ CallDecode(codecCall.after, codecCall.origin)
       \/ CallDecodeInto(codecCall.after, <<>>, codecCall.origin)

CallFromU8(n) ==
    /\ codecCall' = Call("from_u8", n, <<>>, FromU8(n) # "None", "", FromU8(n), <<>>)
    /\ UNCHANGED <<appVars, chanVars, taskVars, recvVars, lockVars, histVars, sockVars>>

\* b + k for the unsigned integer whose bytes, most significant first, are
\* b: the wrapped sum, of the same width
RECURSIVE AddBytes(_, _)
AddBytes(b, k) ==
    IF b = <<>> THEN <<>>
    ELSE LET s == b[Len(b)] + k
         IN  AddBytes(SubSeq(b, 1, Len(b) - 1), s \div 256) \o <<s % 256>>

\* the sum does not fit in the width of b
AddOverflows(b, k) == AddBytes(<<0>> \o b, k)[1] # 0

\* data.len() as u32, for a usize given as its eight bytes: the low four
AsU32(n) == SubSeq(n, 5, 8)

\* the type code write_packet writes first
TypeCode(kind) ==
    CASE kind = "Video" -> TYPE_VIDEO [] kind = "Audio" -> TYPE_AUDIO
      [] kind = "Metadata" -> TYPE_METADATA

\* the bytes of the fixed fields: 4 + 4 + 1 + 8, 4 + 4 + 8, 8
FixedLen(kind) ==
    CASE kind = "Video" -> 4 + 4 + 1 + 8 [] kind = "Audio" -> 4 + 4 + 8
      [] kind = "Metadata" -> 8

\* the head of the record write_packet emits for a packet whose data is n
\* bytes long: the type code, the four bytes of write_u32(len), and the
\* number of bytes the writes after it put on the socket; the u32 addition
\* panics on overflow in a build with overflow checks and wraps in one
\* without
WriteHeader(kind, n, overflow_checks) ==
    LET data_len == AsU32(n)
        panics   == overflow_checks /\ AddOverflows(data_len, FixedLen(kind))
    IN  [panic |-> panics,
         type |-> TypeCode(kind),
         len |-> IF panics THEN <<>> ELSE AddBytes(data_len, FixedLen(kind)),
         payload |-> IF panics THEN Zeros(8) ELSE AddBytes(n, FixedLen(kind))]

\* data lengths, as the eight bytes of the usize: 0, 1, 2, 255, 256, 65536,
\* 100,000,000 - 17, and the ones around 2^32: 2^32 - 18, 2^32 - 17,
\* 2^32 - 16, 2^32 - 9, 2^32 - 8, 2^32 - 1, 2^32, 2^32 + 1, 2^33
DataLengths ==
    { Zeros(8), Zeros(7) \o <<1>>, Zeros(7) \o <<2>>, Zeros(7) \o <<255>>,
      Zeros(6) \o <<1, 0>>, Zeros(5) \o <<1, 0, 0>>,
      Zeros(4) \o <<5, 245, 224, 239>>,
      Zeros(4) \o <<255, 255, 255, 238>>, Zeros(4) \o <<255, 255, 255, 239>>,
      Zeros(4) \o <<255, 255, 255, 240>>, Zeros(4) \o <<255, 255, 255, 247>>,
      Zeros(4) \o <<255, 255, 255, 248>>, Zeros(4) \o <<255, 255, 255, 255>>,
      Zeros(3) \o <<1>> \o Zeros(4), Zeros(3) \o <<1>> \o Zeros(3) \o <<1>>,
      Zeros(3) \o <<2>> \o Zeros(4) }

\* write_packet is given a packet of the kind whose data is n bytes long
CallWritePacket(kind, n, overflow_checks) ==
    /\ LET h == WriteHeader(kind, n, overflow_checks)
       IN  codecCall' = Call("write_packet",
                             [kind |-> kind, len |-> n, overflow_checks |-> overflow_checks],
                             <<>>, ~h.panic, "", h, <<>>)
    /\ UNCHANGED <<appVars, chanVars, taskVars, recvVars, lockVars, histVars, sockVars>>

NextCodec ==
    \/ \E kind \in Kinds, n \in DataLengths, c \in BOOLEAN : CallWritePacket(kind, n, c)
    \/ \E x \in CodecInputs : CallEncode(x)
    \/ \E x \in CodecInputs, dst \in Buffers : CallEncodeInto(x, dst)
    \/ DecodeBack
    \/ \E data \in DecodeInputs : CallDecode(data, <<>>)
    \/ \E data \in DecodeInputs, dst \in Buffers : CallDecodeInto(data, dst, <<>>)
    \/ \E n \in 0..255 : CallFromU8(n)

SpecCodec == Init /\ [][NextCodec]_vars

(***************************************************************************)
(* Sender::send called from several threads, followed statement by         *)
(* statement, with the memory the compression buffer and the payloads      *)
(* split from it share.                                                    *)
(***************************************************************************)
\* buffer.split().freeze(): the part of the storage the buffer held
Shared(start, len) == [mem |-> "shared", start |-> start, len |-> len, bytes |-> <<>>]

\* the Bytes of codec.encode: an allocation of its own
Owned(bytes) == [mem |-> "owned", start |-> 0, len |-> Len(bytes), bytes |-> bytes]

\* the bytes a Bytes value reads
Payload(v) ==
    IF v.mem = "shared" THEN [i \in 1..v.len |-> arena[v.start + i]] ELSE v.bytes

\* the storage after b is written at offset pos (it grows as reserve makes
\* it grow; storage a Bytes refers to is never given out again, so none is)
WriteAt(mem, pos, b) ==
    LET n == IF Len(mem) > pos + Len(b) THEN Len(mem) ELSE pos + Len(b)
    IN  [i \in 1..n |-> IF i > pos /\ i <= pos + Len(b) THEN b[i - pos]
                        ELSE IF i <= Len(mem) THEN mem[i] ELSE 0]

\* the content of the BytesMut c over the storage mem
Content(mem, c) == [i \in 1..c.len |-> mem[c.start + i]]

\* a thread's step inside send: its position and locals, the storage and
\* the buffer afterwards
Step(t, to, mem, c) ==
    /\ thr' = [thr EXCEPT ![t] = to]
    /\ arena' = mem
    /\ cbuf' = c
    /\ compression_buffer' = Content(mem, c)

\* (faulty variant) the lock excludes nobody
LockAlwaysAvailable == TRUE

\* Mutex::lock returns once no other thread holds the guard
LockAvailable == holder = 0

\* BytesMut::split: the buffer goes on behind the bytes it gave away
SplitRest(c) == [start |-> c.start + c.len, len |-> 0]

\* the send calls begun so far
Begun == sendCount + Cardinality({t \in Threads : thr[t].pc # "idle"})

\* the packets the threads send: Video frames whose data is a run of one
\* byte or two different bytes, and an Audio frame
ConcInputs ==
    {Packet(Begun, "Video", d) : d \in {<<1, 1>>, <<0, 1>>}}
    \cup {Packet(Begun, "Audio", <<1, 0>>)}

\* thread t calls send(p): a Video frame goes to the compression, any other
\* packet straight to tx.send
SendEnter(t, p) ==
    /\ appSenders > 0
    /\ thr[t].pc = "idle"
    /\ Begun < MaxConcSends
    /\ thr' = [thr EXCEPT ![t] =
                 [pc |-> IF p.kind = "Video" THEN "lock" ELSE "publish",
                  packet |-> p, start_len |-> 0,
                  out |-> IF p.kind = "Video" THEN NoBytes ELSE Owned(p.data)]]
    /\ UNCHANGED <<appVars, chanVars, taskVars, recvVars, codecVars, sockVars, histVars,
                   arena, cbuf, holder, published>>

\* self.compression_buffer.lock() returns: Ok(guard), or Err (which holds
\* the guard too) when the mutex is poisoned
SendLock(t) ==
    /\ thr[t].pc = "lock"
    /\ LockAvailable
    /\ holder' = t
    /\ thr' = [thr EXCEPT ![t].pc = IF poisoned THEN "fallback" ELSE "clear"]
    /\ UNCHANGED <<appVars, chanVars, taskVars, recvVars, codecVars, sockVars, histVars,
                   arena, cbuf, published>>

\* buffer.clear()
SendClear(t) ==
    /\ thr[t].pc = "clear"
    /\ Step(t, [thr[t] EXCEPT !.pc = "put"], arena, [cbuf EXCEPT !.len = 0])
    /\ UNCHANGED <<appSenders, sendCount, sendResult, sent, fallback, handed, poisoned,
                   chanVars, taskVars, recvVars, codecVars, sockVars, histVars, holder, published>>

\* encode_into: dst.put_u32_le(frame.data.len() as u32)
SendPutSize(t) ==
    /\ thr[t].pc = "put"
    /\ Step(t, [thr[t] EXCEPT !.pc = "resize"],
            WriteAt(arena, cbuf.start + cbuf.len, LE32(Len(thr[t].packet.data))),
            [cbuf EXCEPT !.len = @ + 4])
    /\ UNCHANGED <<appSenders, sendCount, sendResult, sent, fallback, handed, poisoned,
                   chanVars, taskVars, recvVars, codecVars, sockVars, histVars, holder, published>>

\* encode_into: let start_len = dst.len(); dst.resize(start_len + max_len, 0)
SendResize(t) ==
    /\ thr[t].pc = "resize"
    /\ LET max_len == GetMaximumOutputSize(Len(thr[t].packet.data))
       IN  Step(t, [thr[t] EXCEPT !.pc = "compress", !.start_len = cbuf.len],
                WriteAt(arena, cbuf.start + cbuf.len, [i \in 1..max_len |-> 0]),
                [cbuf EXCEPT !.len = @ + max_len])
    /\ UNCHANGED <<appSenders, sendCount, sendResult, sent, fallback, handed, poisoned,
                   chanVars, taskVars, recvVars, codecVars, sockVars, histVars, holder, published>>

\* encode_into: compress_into(&frame.data, &mut dst[start_len..]) and
\* dst.truncate(start_len + compressed_size); an error sends the call to
\* the allocating encode, the guard still held
SendCompressInto(t) ==
    /\ thr[t].pc = "compress"
    /\ LET start_len == thr[t].start_len
           room == IF cbuf.len > start_len THEN cbuf.len - start_len ELSE 0
           c == CompressInto(thr[t].packet.data, room)
           size == start_len + Len(c.out)
       IN  IF c.ok
           THEN Step(t, [thr[t] EXCEPT !.pc = "split"],
                     WriteAt(arena, cbuf.start + start_len, c.out),
                     [cbuf EXCEPT !.len = IF size < @ THEN size ELSE @])
           ELSE Step(t, [thr[t] EXCEPT !.pc = "fallback"], arena, cbuf)
    /\ UNCHANGED <<appSenders, sendCount, sendResult, sent, fallback, handed, poisoned,
                   chanVars, taskVars, recvVars, codecVars, sockVars, histVars, holder, published>>

\* buffer.split().freeze(), and the guard is dropped at the end of the
\* if-let block
SendSplit(t) ==
    /\ thr[t].pc = "split"
    /\ Step(t, [thr[t] EXCEPT !.pc = "publish", !.out = Shared(cbuf.start, cbuf.len)],
            arena, SplitRest(cbuf))
    /\ holder' = IF holder = t THEN 0 ELSE holder
    /\ UNCHANGED <<appSenders, sendCount, sendResult, sent, fallback, handed, poisoned,
                   chanVars, taskVars, recvVars, codecVars, sockVars, histVars, published>>

\* codec.encode(frame)?: the allocating path; the guard (inside the Err of
\* lock(), or the one of the if-let block) is dropped after it
SendFallback(t) ==
    /\ thr[t].pc = "fallback"
    /\ LET e == Encode(thr[t].packet.data)
       IN  /\ e.ok
           /\ thr' = [thr EXCEPT ![t].pc = "publish", ![t].out = Owned(e.bytes)]
    /\ holder' = IF holder = t THEN 0 ELSE holder
    /\ UNCHANGED <<appVars, chanVars, taskVars, recvVars, codecVars, sockVars, histVars,
                   arena, cbuf, published>>

\* the call panics while it holds the guard (put_u32_le and resize
\* allocate): the guard is dropped while unwinding, the mutex is poisoned
SendUnwinds(t) ==
    /\ thr[t].pc \in {"put", "resize"}
    /\ ~poisoned
    /\ poisoned' = TRUE
    /\ holder' = IF holder = t THEN 0 ELSE holder
    /\ thr' = [thr EXCEPT ![t] = IdleThread]
    /\ sendCount' = sendCount + 1
    /\ sendResult' = "panic"
    /\ handed' = <<>>
    /\ UNCHANGED <<appSenders, sent, fallback, compression_buffer,
                   chanVars, taskVars, recvVars, codecVars, sockVars, histVars, arena, cbuf, published>>

\* frame.data = compressed_data_bytes; let _ = self.tx.send(Arc::new(packet)); Ok(())
SendPublish(t) ==
    /\ thr[t].pc = "publish"
    /\ LET p == thr[t].packet
           q == [p EXCEPT !.data = thr[t].out]
       IN  /\ TxSend(q)
           /\ handed' = <<q>>
           /\ sent' = p
           /\ fallback' = (p.kind = "Video" /\ thr[t].out.mem = "owned")
           /\ published' = Append(published,
                                  [id |-> p.id, kind |-> p.kind, data |-> p.data,
                                   out |-> thr[t].out, locked |-> holder = t])
    /\ thr' = [thr EXCEPT ![t] = IdleThread]
    /\ sendCount' = sendCount + 1
    /\ sendResult' = "Ok"
    /\ UNCHANGED <<appSenders, compression_buffer, poisoned, numTx, rxCnt, closed,
                   taskVars, recvVars, codecVars, sockVars, histVars, arena, cbuf, holder>>

NextConc ==
    \/ Begun < MaxConcSends /\ \E t \in Threads, p \in ConcInputs : SendEnter(t, p)
    \/ \E t \in Threads : SendLock(t)
    \/ \E t \in Threads : SendClear(t)
    \/ \E t \in Threads : SendPutSize(t)
    \/ \E t \in Threads : SendResize(t)
    \/ \E t \in Threads : SendCompressInto(t)
    \/ \E t \in Threads : SendSplit(t)
    \/ \E t \in Threads : SendFallback(t)
    \/ \E t \in Threads : SendUnwinds(t)
    \/ \E t \in Threads : SendPublish(t)
    \/ Accept

SpecConc == Init /\ [][NextConc]_vars

(***************************************************************************)
(* Properties of the fan-out.                                              *)
(***************************************************************************)
\* the sequence a, a+1, ..., a+n-1
Range(a, n) == [i \in 1..n |-> a + i - 1]

Alive(w) == pc[w] \in {"recv", "write"}

Spawned(w) == pc[w] # "idle"

\* the packet a writer has taken and not yet written
InFlight(w) == IF pc[w] = "write" THEN 1 ELSE 0

\* w never was, and is not now, more than the capacity behind the publisher
KeptUp(w) == skipped[w] = 0 /\ tail - next[w] <= Capacity

StrictlyIncreasing(q) == \A i \in 1..(Len(q) - 1) : q[i] < q[i + 1]

\* the packets stored at the positions w has passed
Passed(w) == SubSeq(chanLog, subPos[w] + 1, next[w])

\* C1: a writer task that subscribed before the first send and never fell
\* more than the capacity behind has taken the packets 0, 1, 2, ... with none
\* missing or repeated, has written each of them to its socket once and in
\* that order (all but the one it is writing), and while it lives every send
\* is stored, so that a writer that has caught up has written every packet
\* published.
C1Theorem ==
    \A w \in Writers :
        (Spawned(w) /\ subSent[w] = 0 /\ KeptUp(w)) =>
            /\ taken[w] = Range(0, next[w])
            /\ pc[w] # "failed" => sock[w] = Range(0, next[w] - InFlight(w))
            /\ pc[w] = "failed" => sock[w] = Range(0, next[w] - 1)
            /\ Alive(w) => chanLog = Range(0, sendCount)

\* every writer has written more packets than the ring holds, all of them
C1Witness ==
    \A w \in Writers :
        /\ pc[w] = "recv" /\ subSent[w] = 0 /\ skipped[w] = 0
        /\ Len(sock[w]) = MaxPub /\ sendCount = MaxPub

\* C2: for every subscriber, lagging or not, the publish indices its writer
\* task takes from the channel are strictly increasing: publish order, and no
\* packet twice, also after lag notifications.
C2Theorem == \A w \in Writers : StrictlyIncreasing(taken[w])

\* a writer took a packet, was overrun, was told so, and took a packet again
C2Witness ==
    \E w \in Writers :
        /\ skipped[w] > 0 /\ Len(taken[w]) >= 2
        /\ lastRecv[w].kind = "ok" /\ prevRecv[w].kind = "lag"

\* a receive of a writer more than the capacity behind yields a lag
\* notification, and only such a receive does; its count is the distance
\* from the writer's position to the oldest position still held, where the
\* writer resumes
LagExact(w) ==
    LET r == lastRecv[w]
    IN  /\ r.kind # "none" => (r.kind = "lag" <=> r.behind)
        /\ r.kind = "lag" =>
              /\ r.n = (r.tailAt - Capacity) - r.from
              /\ r.next = r.tailAt - Capacity

\* the packet at position p
At(p) == chanLog[p + 1]

\* the counts w was told add up to the packets it passed without taking:
\* what it took are distinct packets among those at the positions it passed,
\* and the rest of these are as many as it was told
LagCounts(w) ==
    /\ StrictlyIncreasing(taken[w])
    /\ taken[w] # <<>> =>
          /\ taken[w][1] >= At(subPos[w])
          /\ taken[w][Len(taken[w])] <= At(next[w] - 1)
    /\ (next[w] - subPos[w]) - Len(taken[w]) = skipped[w]

\* C3 as stated: ... and the receive after a lag notification yields the
\* oldest packet still held, the one right after the skipped ones.
C3Original ==
    \A w \in Writers :
        /\ LagExact(w)
        /\ LagCounts(w)
        /\ prevRecv[w].kind = "lag" =>
              /\ lastRecv[w].kind = "ok"
              /\ lastRecv[w].id = At(prevRecv[w].next)
              /\ lastRecv[w].oldest

\* C3: a receive of a subscriber more than the capacity (16) behind yields a
\* lag notification whose count is exactly the number of packets it passes
\* over and never receives; the receive after it yields the packet right
\* after the skipped ones, which is then still the oldest packet held, unless
\* the publisher has published in between: then it yields a further lag
\* notification.
C3Theorem ==
    \A w \in Writers :
        /\ LagExact(w)
        /\ LagCounts(w)
        /\ prevRecv[w].kind = "lag" =>
              \/ /\ lastRecv[w].kind = "ok"
                 /\ lastRecv[w].id = At(prevRecv[w].next)
                 /\ lastRecv[w].oldest
              \/ /\ lastRecv[w].kind = "lag"
                 /\ lastRecv[w].tailAt > prevRecv[w].tailAt

\* a writer was told a lag and then took the oldest packet held
C3Witness ==
    \E w \in Writers :
        /\ prevRecv[w].kind = "lag" /\ prevRecv[w].n > 0
        /\ lastRecv[w].kind = "ok"

\* the bound of the model lets the application send once more
MaySendNext ==
    /\ appSenders > 0
    /\ IF TxSendStores THEN tail < MaxPub ELSE sendCount - tail < MaxLost

\* a writer is stopped in a socket write and has been overrun
Stalled(w) == pc[w] = "write" /\ tail - next[w] > Capacity

\* a writer is in a socket write with the ring full of packets it has not
\* consumed
Overrun(w) == pc[w] = "write" /\ tail - next[w] >= Capacity

\* C4: send never waits on a subscriber: a send call can complete in every
\* state, also with a writer task stopped in a socket write and 16
\* unconsumed packets in the channel, and it returns Ok; a subscriber that
\* keeps up has taken every packet stored since it subscribed, whatever the
\* other subscribers do.
C4Theorem ==
    /\ MaySendNext => TxSendReady
    /\ (MaySendNext /\ \E w \in Writers : Overrun(w)) => ENABLED SendNext
    /\ sendResult \in {"none", "Ok"}
    /\ \A w \in Writers : (Spawned(w) /\ KeptUp(w)) => taken[w] = Passed(w)

\* one writer is stopped in a write and overrun, the other has everything
C4Witness ==
    \E w, v \in Writers :
        /\ Stalled(w)
        /\ pc[v] = "recv" /\ skipped[v] = 0 /\ Len(sock[v]) > Capacity
        /\ next[v] = tail /\ sendResult = "Ok"

\* C5 as stated: once every Sender handle of the application is dropped the
\* publish channel is closed.
C5Claim == appSenders = 0 => closed

\* after a write failure the channel stays open unless every broadcast
\* sender is gone, a send made while another writer lives is stored, the
\* living writers that keep up have taken every packet stored since they
\* subscribed, and send has returned Ok
C6Inv ==
    (\E w \in Writers : pc[w] = "failed") =>
        /\ closed <=> numTx = 0
        /\ sendResult \in {"none", "Ok"}
        /\ \A v \in Writers :
              /\ Alive(v) => Len(chanLog) - subPos[v] = sendCount - subSent[v]
              /\ (Alive(v) /\ KeptUp(v)) => sock[v] = SubSeq(Passed(v), 1, Len(sock[v]))
              /\ (Alive(v) /\ KeptUp(v)) => Len(sock[v]) = next[v] - subPos[v] - InFlight(v)
              /\ pc[v] = "closed" => closed

\* the step in which a write fails changes nothing of the other writers,
\* of the accept loop or of the channel's contents
C6Step ==
    \A w \in Writers :
        (pc[w] = "write" /\ pc'[w] = "failed") =>
            /\ acceptLoop' = acceptLoop /\ nConn' = nConn
            /\ closed' = closed /\ numTx' = numTx
            /\ buffer' = buffer /\ tail' = tail
            /\ \A v \in Writers \ {w} :
                  /\ pc'[v] = pc[v] /\ next'[v] = next[v]
                  /\ taken'[v] = taken[v] /\ sock'[v] = sock[v]

\* C6: a socket write failure ends that writer task only: the failing step
\* leaves the other writer tasks, the accept loop and the channel as they
\* were, and from then on the channel stays open, every send is stored while
\* a writer lives and returns Ok, and the living writers that keep up take
\* and write every packet stored since they subscribed.
C6Theorem == []C6Inv /\ [][C6Step]_vars

\* the first writer took a packet and its write failed, a send was made
\* with nobody subscribed, then the second connection was accepted and its
\* writer has written more packets than the ring holds
C6Witness ==
    \E w, v \in Writers :
        /\ pc[w] = "failed" /\ subSent[w] = 0 /\ Len(taken[w]) > 0
        /\ sendCount - Len(chanLog) > 0
        /\ pc[v] = "recv" /\ subSent[v] > 1 /\ Len(sock[v]) > Capacity
        /\ sendResult = "Ok"

\* C7: a send with no writer task subscribed returns Ok and its packet
\* reaches no one: every packet a writer takes was stored by the channel and
\* was published after the writer subscribed.
C7Theorem ==
    /\ sent.id \in lost => sendResult = "Ok"
    /\ \A i \in lost : i < sendCount /\ \A k \in DOMAIN chanLog : chanLog[k] # i
    /\ \A w \in Writers : \A i \in DOMAIN taken[w] :
          /\ taken[w][i] >= subSent[w]
          /\ taken[w][i] \notin lost

\* a send was made with nobody subscribed, and a writer that subscribed
\* afterwards has taken packets
C7Witness ==
    \E w \in Writers :
        /\ lost # {}
        /\ subSent[w] > 0 /\ Len(taken[w]) > 0
        /\ sendResult = "Ok"

(***************************************************************************)
(* Properties of Sender::send.                                             *)
(***************************************************************************)
\* the packet send publishes for p: a Video frame's data replaced by the
\* size prefix and the compressed block, any other packet as it is
Published(p) ==
    IF p.kind = "Video"
    THEN [p EXCEPT !.data = LE32(Len(p.data)) \o CompressBlock(p.data)]
    ELSE p

\* the last send call returned, and the channel stored its packet
StoredLast ==
    /\ sendResult = "Ok"
    /\ chanLog # <<>> /\ chanLog[Len(chanLog)] = sent.id

\* C8: when the compression buffer's lock cannot be taken, send falls back
\* to the allocating encode and the Video packet is published all the same;
\* no send call returns an error, and a call that returned Ok handed exactly
\* one packet to the channel, the compressed form of the one it was given,
\* which the channel stored if anyone was subscribed.
C8Theorem ==
    /\ sendResult # "Err"
    /\ sendResult = "Ok" => handed = <<Published(sent)>>
    /\ (sendResult = "Ok" /\ sent.kind = "Video" /\ poisoned) => fallback
    /\ (sendResult = "Ok" /\ fallback) => (sent.kind = "Video" /\ poisoned)
    /\ StoredLast => buffer[(tail - 1) % Capacity].val = Published(sent)

\* a Video packet was sent with the lock poisoned, went through the
\* allocating encode and was stored by the channel
C8Witness ==
    /\ poisoned /\ fallback /\ StoredLast
    /\ sent.kind = "Video" /\ Len(sent.data) = MaxData
    /\ buffer[(tail - 1) % Capacity].val = Published(sent)

(***************************************************************************)
(* Properties of Receiver::receive.                                        *)
(***************************************************************************)
\* C9 as stated: the clean end-of-stream outcome is returned only when the
\* peer closed with nothing buffered, a close with part of a record buffered
\* gives the truncated-stream error, and a receive that is still waiting has
\* returned nothing.
C9Claim ==
    /\ (rpc = "idle" /\ result = UnexpectedEof) => rbuf = <<>>
    /\ (rpc = "idle" /\ result = Err("Protocol", "Connection closed incomplete")) =>
          rbuf # <<>>
    /\ rpc # "idle" => result = NoResult

\* the length the buffered header declares
Declared == FromBE32(SubSeq(rbuf, 2, 5))

PacketTooLarge == Err("Protocol", "Packet too large")

\* receive is waiting for a body only of a declared length of at most
\* 100,000,000, and has returned "Packet too large" only for a greater one,
\* the whole header then still at the front of the buffer
C10Inv ==
    /\ rpc = "body" =>
          /\ Len(rbuf) >= HeaderLen
          /\ rlen = Declared
          /\ rlen <= MaxPayload
    /\ (rpc = "idle" /\ result = PacketTooLarge) =>
          /\ Len(rbuf) >= HeaderLen
          /\ Declared > MaxPayload

\* the step taken with the header buffered reads nothing
\* and leaves the buffer as it is, and it returns the error iff the declared
\* length exceeds the ceiling
C10Step ==
    (rpc = "hdr" /\ Len(rbuf) >= HeaderLen) =>
        /\ rbuf' = rbuf /\ wire' = wire
        /\ (result' = PacketTooLarge /\ rpc' = "idle") <=> Declared > MaxPayload
        /\ (result' = NoResult /\ rpc' = "body") <=> Declared <= MaxPayload

\* C10: as soon as 5 header bytes are buffered receive returns the Protocol
\* error "Packet too large" if and only if the declared length is greater
\* than 100,000,000 (exactly 100,000,000 goes on to the body); the step that
\* decides it reads nothing, and the refusal leaves the whole header in the
\* buffer.
C10Theorem == []C10Inv /\ [][C10Step]_vars

\* a header declaring 100,000,001 bytes was refused with body bytes already
\* buffered behind it
C10Witness ==
    /\ rpc = "idle" /\ result = PacketTooLarge
    /\ Len(rbuf) > HeaderLen
    /\ Declared = MaxPayload + 1

(***************************************************************************)
(* Properties of the parse.                                                *)
(***************************************************************************)
\* the whole record is buffered: the next step of receive parses it
RecordBuffered == rpc = "body" /\ Len(rbuf) >= HeaderLen + rlen

\* the type byte and the payload of the record at the front of the buffer
FrontType == rbuf[1]

FrontPayload == SubSeq(rbuf, HeaderLen + 1, HeaderLen + Declared)

\* the record at the front has a type code that is not 1, 2 or 3, or is a
\* Video record whose format byte is not a code of PixelFormat
UnknownTypeOrFormat ==
    \/ FrontType \notin {TYPE_VIDEO, TYPE_AUDIO, TYPE_METADATA}
    \/ /\ FrontType = TYPE_VIDEO
       /\ Len(FrontPayload) >= 9
       /\ FrontPayload[9] \notin 0..6

\* a packet receive has returned is of a known type, and a Video packet has
\* a format byte in 0..6
C11Inv ==
    result.kind = "Packet" =>
        /\ result.frame.kind \in Kinds
        /\ result.frame.kind = "Video" => result.frame.head[9] \in 0..6

\* the step that parses such a record returns a Protocol error
C11Step ==
    (RecordBuffered /\ UnknownTypeOrFormat) =>
        /\ result'.kind = "Protocol"
        /\ result'.frame = NoFrame

\* C11: for every complete record whose type code is not 1, 2 or 3, and for
\* every complete Video record whose format byte is not in 0..6, receive
\* returns a Protocol error and never a packet.
C11Theorem == []C11Inv /\ [][C11Step]_vars

\* a Video record with format byte 7 or 255 was refused
C11Witness ==
    /\ rpc = "idle" /\ calls = 1
    /\ result = Err("Protocol", "Invalid pixel format")

\* the record at the front is shorter than the fixed fields of its type
ShortOfFixedFields ==
    \/ FrontType = TYPE_VIDEO /\ Declared < 21
    \/ FrontType = TYPE_AUDIO /\ Declared < 16
    \/ FrontType = TYPE_METADATA /\ Declared < 8

\* C12 as stated: a complete record whose payload is shorter than the fixed
\* fields of its type makes receive return a Protocol error; receive never
\* panics.
C12Claim ==
    [][(RecordBuffered /\ ShortOfFixedFields) => result'.kind = "Protocol"]_vars

(***************************************************************************)
(* Properties of the framing.                                              *)
(***************************************************************************)
\* the bytes of the stream receive has not consumed, whether a read has
\* already moved them to the buffer or not
Unconsumed == rbuf \o wire

\* the record at the front of s, as its header delimits it
RecordLen(s) == HeaderLen + FromBE32(SubSeq(s, 2, 5))

RecordPayload(s) == SubSeq(s, HeaderLen + 1, RecordLen(s))

\* while receive waits for a body its locals are the header at the front of
\* the buffer
C13Inv ==
    rpc = "body" =>
        /\ Len(rbuf) >= HeaderLen
        /\ rtype = rbuf[1]
        /\ rlen = FromBE32(SubSeq(rbuf, 2, 5))

\* a step either leaves the unconsumed bytes as they are (a read only moves
\* some of them into the buffer) and returns no packet, or it removes
\* exactly the first record of the unconsumed bytes and returns what that
\* record parses to, wherever the reads had split the stream
C13Step ==
    \/ /\ rbuf' \o wire' = Unconsumed
       /\ Len(rbuf') >= Len(rbuf)
       /\ result'.kind = "Packet" => result' = result
    \/ /\ Len(Unconsumed) >= HeaderLen
       /\ Len(Unconsumed) >= RecordLen(Unconsumed)
       /\ rbuf' \o wire' = SubSeq(Unconsumed, RecordLen(Unconsumed) + 1, Len(Unconsumed))
       /\ wire' = wire
       /\ result' = Dispatch(Unconsumed[1], RecordPayload(Unconsumed), dbuf).ret
       /\ result'.frame.kind = "Audio" =>
              result'.frame.head \o result'.frame.data = RecordPayload(Unconsumed)

\* C13: what the receive calls return depends on the bytes of the stream
\* only, not on how the reads split it: each call that returns a record
\* removes exactly that record (header and declared length of payload) from
\* the front of the bytes not yet consumed, every byte after it stays, in
\* order, for the following calls, and no other step drops or repeats a
\* byte.
C13Theorem == []C13Inv /\ [][C13Step]_vars

\* a read has delivered the end of the first record together with part of
\* the second one's header: the first record was returned, the bytes of the
\* second wait in the buffer, the rest of it is still to come
C13Witness ==
    /\ rpc = "idle" /\ calls = 1 /\ result.kind = "Packet"
    /\ rbuf # <<>> /\ Len(rbuf) < HeaderLen
    /\ wire # <<>>

(***************************************************************************)
(* Properties of the round trip.                                           *)
(***************************************************************************)
\* the step in which receive parses the record it has buffered
RecordParsed == RecordBuffered /\ rpc' = "idle"

\* the Duration with the nanoseconds below a whole microsecond dropped
TruncatedToMicros(ts) == Duration(ts.micros, 0)

\* the microseconds of the Duration are below 2^64
FitsU64(ts) == SubSeq(ts.micros, 1, 8) = Zeros(8)

\* the fields of the frame f that receive returned, as receive reads them
\* from the fixed part of the payload
GotU32(f, at) == FromBE32(SubSeq(f.head, at, at + 3))

GotFormat(f) == FromU8(f.head[9])

GotTimestamp(f, at) == FromMicros(SubSeq(f.head, at, at + 7))

\* the Video frame receive returns for the record of the packet sent: all
\* but the timestamp
VideoDelivered ==
    /\ result'.kind = "Packet"
    /\ result'.frame.kind = "Video"
    /\ GotU32(result'.frame, 1) = sent.width
    /\ GotU32(result'.frame, 5) = sent.height
    /\ GotFormat(result'.frame) = sent.format
    /\ result'.frame.data = sent.data
    /\ dbuf' = <<>>

PlainDelivered ==
    /\ result'.kind = "Packet"
    /\ result'.frame.kind = sent.kind
    /\ result'.frame.data = sent.data
    /\ sent.kind = "Audio" =>
          /\ GotU32(result'.frame, 1) = sent.sample_rate
          /\ GotU32(result'.frame, 5) = sent.channels

\* where the timestamp stands in the fixed part of the payload
TimestampAt(kind) == IF kind = "Audio" THEN 9 ELSE 1

\* send has handed the Audio or Metadata packet to the channel as it was
SentUnmodified ==
    (sent.kind \in {"Audio", "Metadata"} /\ sendResult = "Ok") => handed = <<sent>>

Encoded == codecCall.op \in {"encode", "encode_into"}

Decoded == codecCall.op \in {"decode", "decode_into"}

\* C16: for every byte buffer x, the empty one included, encode and
\* encode_into into an empty buffer return Ok with the little-endian
\* length of x as the first 4 bytes, and decode and decode_into (into an
\* empty buffer) of that output return Ok and exactly x.
C16Theorem ==
    /\ (Encoded /\ codecCall.before = <<>>) =>
          /\ codecCall.ok
          /\ Len(codecCall.after) >= 4
          /\ SubSeq(codecCall.after, 1, 4) = LE32(Len(codecCall.input))
    /\ (Decoded /\ codecCall.origin # <<>>) =>
          /\ codecCall.ok
          /\ codecCall.after = codecCall.origin[1]

\* the encoding of the empty buffer was decoded by decode_into
C16Witness ==
    /\ codecCall.op = "decode_into" /\ codecCall.origin = << <<>> >>
    /\ codecCall.ok /\ codecCall.after = <<>>
    /\ Len(codecCall.input) > 4

\* C17: decode and decode_into return a Protocol error for every input
\* shorter than 4 bytes, and decode_into then leaves the destination
\* buffer as it was.
C17Theorem ==
    (Decoded /\ Len(codecCall.input) < 4) =>
        /\ ~codecCall.ok
        /\ codecCall.msg = "Data too short for header"
        /\ codecCall.op = "decode_into" => codecCall.after = codecCall.before

\* decode_into was given 3 bytes and a destination holding 3 bytes
C17Witness ==
    /\ codecCall.op = "decode_into" /\ codecCall.input = <<2, 0, 0>>
    /\ codecCall.before = <<7, 8, 9>> /\ ~codecCall.ok

\* the size field and the block of the decoder's input
DeclaredSize == FromLE32(SubSeq(codecCall.input, 1, 4))

Block == SubSeq(codecCall.input, 5, Len(codecCall.input))

\* C18 as stated: when the size declared in the 4-byte prefix differs from
\* the number of bytes the decompression produces, decode and decode_into
\* return an error.
C18Claim ==
    (/\ Decoded
     /\ Len(codecCall.input) >= 4
     /\ BlockOk(Block)
     /\ Len(Expand(Block)) # DeclaredSize) => ~codecCall.ok

\* C19 as stated: a successful encode_into or decode_into leaves the bytes
\* the destination held before the call unchanged at the front and places
\* its result after them.
C19Claim ==
    (codecCall.op \in {"encode_into", "decode_into"} /\ codecCall.ok) =>
        /\ Len(codecCall.after) >= Len(codecCall.before)
        /\ SubSeq(codecCall.after, 1, Len(codecCall.before)) = codecCall.before

\* C20: for every n in 0..6 from_u8(n) is the variant whose numeric value
\* is n, and for every n in 7..255 it is None.
C20Theorem ==
    codecCall.op = "from_u8" =>
        IF codecCall.input \in 0..6
        THEN /\ codecCall.after \in PixelFormat
             /\ AsU8(codecCall.after) = codecCall.input
        ELSE codecCall.after = "None"

\* from_u8 was called with the largest code, and gave PA16
C20Witness ==
    /\ codecCall.op = "from_u8" /\ codecCall.input = 6
    /\ codecCall.after = "PA16" /\ AsU8(codecCall.after) = 6

(***************************************************************************)
(* Properties of write_packet's record head.                               *)
(***************************************************************************)
\* C21 as stated: for every packet the record write_packet emits starts
\* with the type code of its kind and its 4-byte big-endian length field is
\* the number of payload bytes written after it, for every data length,
\* those whose sum with the fixed fields does not fit in 32 bits included.
C21Claim ==
    codecCall.op = "write_packet" =>
        /\ codecCall.ok
        /\ codecCall.after.type = TypeCode(codecCall.input.kind)
        /\ Zeros(4) \o codecCall.after.len = codecCall.after.payload

(***************************************************************************)
(* Properties of concurrent send calls.                                    *)
(***************************************************************************)
\* what a published packet must carry: the codec's output for its own
\* frame's data, or the data itself when it is not a Video packet
OwnPayload(e) == IF e.kind = "Video" THEN Encode(e.data).bytes ELSE e.data

\* C22: with send calls running concurrently on clones of one Sender, a
\* call never holds the compression-buffer lock when it hands its packet to
\* the channel, every published Video packet carries the compressed form of
\* its own frame's data and nothing else, and the payload of a published
\* packet stays what it was while later calls reuse the buffer.
C22Theorem ==
    /\ \A t \in Threads : thr[t].pc = "publish" => holder # t
    /\ \A i \in DOMAIN published :
          /\ ~published[i].locked
          /\ Payload(published[i].out) = OwnPayload(published[i])

\* a Video packet compressed in the shared buffer is published, and another
\* call, for a frame with other data, has written its block in the same
\* buffer while a third waits for the lock
C22Witness ==
    /\ Len(published) >= 1
    /\ published[1].kind = "Video" /\ published[1].out.mem = "shared"
    /\ \E t, u \in Threads :
          /\ thr[t].pc = "split" /\ thr[t].packet.data # published[1].data
          /\ cbuf.start > 0
          /\ thr[u].pc = "lock"

(***************************************************************************)
(* Properties of receive calls that follow an abandoned or a failed one.   *)
(***************************************************************************)
\* what receive calls return for the records of s, one call per record,
\* none abandoned, the decompression buffer being dst at the start
RECURSIVE Returned(_, _)
Returned(s, dst) ==
    IF s = <<>> THEN <<>>
    ELSE LET d == Dispatch(s[1], RecordPayload(s), dst)
         IN  <<d.ret>> \o Returned(SubSeq(s, RecordLen(s) + 1, Len(s)), d.dst)

\* every byte the peer has sent and will not send again
Stream == consumed \o rbuf \o wire

\* a is the front of b
IsPrefix(a, b) == Len(a) <= Len(b) /\ a = SubSeq(b, 1, Len(a))

C23Inv == delivered = Returned(consumed, <<>>)

C23Step ==
    /\ Stream' = Stream
    /\ rbuf' # rbuf =>
          \/ IsPrefix(rbuf, rbuf')
          \/ /\ RecordBuffered
             /\ rbuf' = SubSeq(rbuf, HeaderLen + rlen + 1, Len(rbuf))
    /\ abandons' # abandons =>
          /\ rbuf' = rbuf /\ wire' = wire /\ dbuf' = dbuf
          /\ consumed' = consumed /\ delivered' = delivered

\* C23: receive takes nothing out of its buffer before a whole record
\* (5 + length bytes) is buffered; a call abandoned while it waits for a
\* read loses no byte, and the calls that follow return what calls that
\* were never abandoned return for the same stream.
C23Theorem == []C23Inv /\ [][C23Step]_vars

\* two records were returned although a call was abandoned with a part of
\* a record in the buffer, twice
C23Witness ==
    /\ abandons = MaxAbandon
    /\ Len(delivered) = 2
    /\ delivered[1].kind = "Packet" /\ delivered[2].kind = "Packet"
    /\ wire = <<>> /\ rbuf = <<>>

\* what receive calls return for the records of s when every Video frame is
\* decoded into an empty decompression buffer
RECURSIVE ReturnedFresh(_)
ReturnedFresh(s) ==
    IF s = <<>> THEN <<>>
    ELSE <<Dispatch(s[1], RecordPayload(s), <<>>).ret>>
           \o ReturnedFresh(SubSeq(s, RecordLen(s) + 1, Len(s)))

\* the match on the type refused the first record taken
FirstRefused ==
    /\ Len(delivered) >= 1
    /\ delivered[1].kind = "Protocol"

\* C24 as stated: after receive has returned a Protocol error of the match
\* on the type (unknown type, invalid pixel format, Video payload under 21
\* bytes) or a decompression error, the whole record is out of the buffer,
\* the buffer starts at the next record, the next call returns that record,
\* and a Video frame it delivers holds no byte the failed decode left in
\* the decompression buffer.
C24Claim ==
    FirstRefused =>
        /\ \E a \in FirstRecords, b \in SecondRecords :
              /\ IsPrefix(Stream, a \o b)
              /\ consumed \in {a, a \o b}
        /\ delivered = ReturnedFresh(consumed)

(***************************************************************************)
(* Properties of the bytes on a writer task's socket.                      *)
(***************************************************************************)
\* the packet send gave to the channel for its i-th call
Broadcast(i) ==
    LET p == FrameOf(i)
    IN  IF p.kind = "Video" THEN [p EXCEPT !.data = Encode(p.data).bytes] ELSE p

\* the records of the packets ids, one after the other
RECURSIVE Records(_)
Records(ids) ==
    IF ids = <<>> THEN <<>>
    ELSE WritePacket(Broadcast(Head(ids))) \o Records(Tail(ids))

\* what is on the socket of w after its complete records
Incomplete(w) == SubSeq(sockBytes[w], Len(Records(sock[w])) + 1, Len(sockBytes[w]))

C25Inv ==
    \A w \in Writers :
        /\ IsPrefix(sock[w], taken[w])
        /\ IsPrefix(Records(sock[w]), sockBytes[w])
        /\ Incomplete(w) # <<>> =>
              /\ Len(taken[w]) = Len(sock[w]) + 1
              /\ LET r == WritePacket(Broadcast(taken[w][Len(taken[w])]))
                 IN  IsPrefix(Incomplete(w), r) /\ Incomplete(w) # r
        /\ pc[w] = "recv" => Incomplete(w) = <<>>

C25Step ==
    \A w \in Writers :
        /\ IsPrefix(sockBytes[w], sockBytes'[w])
        /\ pc[w] = "failed" => sockBytes'[w] = sockBytes[w] /\ pc'[w] = "failed"

\* C25: at every moment the bytes on one writer task's socket are the
\* complete records of the packets the task took, one each and in the order
\* taken, followed by at most one incomplete record; after an incomplete
\* record nothing more is written (the task has stopped), and the records
\* of two packets are never interleaved.
C25Theorem == []C25Inv /\ [][C25Step]_vars

\* a task has written one whole record and stopped inside the next, while
\* the other task is in the middle of a record
C25Witness ==
    \E w, v \in Writers :
        /\ pc[w] = "failed" /\ Len(sock[w]) = 1 /\ Len(Incomplete(w)) > 5
        /\ pc[v] = "write" /\ wfield[v] > 2
====
